---- MODULE Spec2Model ----
(***************************************************************************)
(* Hospital PBX shift scheduler (jrapisarda/Scheduler_App).                *)
(*                                                                         *)
(* The repository holds four versions of the assignment engine:            *)
(*   - Requirements/sample_scehduler.py  the reference script     Ref..    *)
(*   - scheduling_engine.py              SchedulingEngine         Eng..    *)
(*   - app.py                            generate_schedule        App..    *)
(*   - app_fixed.py                      SchedulingEngine + HTTP  Fix..    *)
(* Each is modelled as its own state machine over shared variables; a      *)
(* specification runs one of them and leaves the others idle.              *)
(* app.py and app_fixed.py are modelled with their /api/schedule/generate   *)
(* endpoint and the schedules table it rewrites; app_fixed.py also with    *)
(* its shift-trade endpoints (Trade..), whose POST handler is either its   *)
(* own or the replacement in deepseek_python_20250929_62207b.py.           *)
(*                                                                         *)
(* Units: a time of day is a number of half hours since midnight, an       *)
(* instant is date * 48 + time of day, a duration is a number of half      *)
(* hours.  A date is a day number; day 0 is a Monday.                      *)
(***************************************************************************)
EXTENDS Integers, Sequences, FiniteSets, TLC

VARIABLES
    \* ---- Requirements/sample_scehduler.py ----
    PEOPLE, start_date, days_total,
    d, ref_pc, slot_i,
    assignments, weekly_hours, weekly_hours_by_week, last_end_dt, worked_days_seq,
    candidates, person, viol,
    \* ---- scheduling_engine.py ----
    eng_employees, eng_start_date, eng_weeks,
    eng_week, eng_day, eng_pc,
    schedule_data, employee_hours, last_shift_end, consecutive_days, all_assignments,
    \* ---- app.py ----
    app_employees, app_start_dt, app_days,
    day_idx, app_pc, state, app_assignments,
    day_pool_sorted, night_pool_sorted, assigned_today, day_assigned,
    app_schedules, app_responses, app_pending, employees_sorted, timeoff_requests,
    app_entered, app_returned,
    \* ---- app_fixed.py ----
    fix_employees, time_off_requests, schedules,
    fix_pc, fix_start_date, fix_weeks, day_offset, new_assignments,
    available_day_employees, available_night_employees, responses, fix_read, fix_pending,
    fix_entered, fix_returned,
    \* ---- app_fixed.py shift trades ----
    shift_trades, trade_response, today,
    \* ---- the employee and time-off endpoints (app.py and app_fixed.py): ----
    \* ---- their answers, and the handlers that stand before their commit ----
    api_responses, api_held

refVars == << PEOPLE, start_date, days_total, d, ref_pc, slot_i,
              assignments, weekly_hours, weekly_hours_by_week, last_end_dt,
              worked_days_seq, candidates, person, viol >>

engVars == << eng_employees, eng_start_date, eng_weeks, eng_week, eng_day, eng_pc,
              schedule_data, employee_hours, last_shift_end, consecutive_days,
              all_assignments >>

appVars == << app_employees, app_start_dt, app_days, day_idx, app_pc, state,
              app_assignments, day_pool_sorted, night_pool_sorted, assigned_today,
              day_assigned, app_schedules, app_responses, app_pending, employees_sorted,
              timeoff_requests, app_entered, app_returned >>

fixVars == << fix_employees, time_off_requests, schedules, fix_pc, fix_start_date,
              fix_weeks, day_offset, new_assignments, available_day_employees,
              available_night_employees, responses, fix_read, fix_pending,
              fix_entered, fix_returned >>

tradeVars == << shift_trades, trade_response, today,
               api_responses, api_held >>

vars == << refVars, engVars, appVars, fixVars, tradeVars >>

----------------------------------------------------------------------------
(* Bounds of the model                                                     *)

StartDates == {11, 13, 14}
EngWeeks   == 2
EngStartDates == 7..13
AppRoster  == 5
AppWeeks   == 1
AppRequests == 2
AppEdits   == 1
AppTimeOffs == 3
AppStartDates == {7, 10}
FixRoster  == 3
FixTimeOffs == 4
FixWeeks   == 1
FixRequests == 1
FixEdits   == 1
TradeMax   == 2
FixStartDates == {7, 8}

----------------------------------------------------------------------------
(* Time utilities                                                          *)

Hrs(h)      == 2 * h
T(h, m)     == 2 * h + (m \div 30)
DayHalfHours == Hrs(24)
Max(a, b)   == IF a >= b THEN a ELSE b
Min(a, b)   == IF a <= b THEN a ELSE b

weekday(date) == date % 7

DowNames == << "Mon", "Tue", "Wed", "Thu", "Fri", "Sat", "Sun" >>
strftime_a(date) == DowNames[weekday(date) + 1]

combine(date, t) == date * DayHalfHours + t

\* dict helpers: a dict is a function on the set of its keys
Put(f, k, v) == [x \in (DOMAIN f) \cup {k} |-> IF x = k THEN v ELSE f[x]]
GetOr(f, k, dflt) == IF k \in DOMAIN f THEN f[k] ELSE dflt
EmptyDict == [x \in {} |-> 0]

RECURSIVE SumSeq(_)
SumSeq(s) == IF s = << >> THEN 0 ELSE Head(s) + SumSeq(Tail(s))

SelectSeqIdx(s, Test(_)) ==
    LET F[i \in 0..Len(s)] ==
            IF i = 0 THEN << >>
            ELSE IF Test(s[i]) THEN Append(F[i-1], s[i]) ELSE F[i-1]
    IN F[Len(s)]

\* lexicographic order on key tuples of equal length
LexLess(a, b) ==
    \E i \in 1..Len(a) : a[i] < b[i] /\ \A j \in 1..(i-1) : a[j] = b[j]

\* list.sort(key=...) : stable, ascending
StableSort(s, Key(_)) ==
    LET n == Len(s)
        Before(i, j) == LexLess(Key(s[i]), Key(s[j])) \/ (Key(s[i]) = Key(s[j]) /\ i < j)
        Pos(i) == 1 + Cardinality({j \in 1..n : Before(j, i)})
    IN [k \in 1..n |-> s[CHOOSE i \in 1..n : Pos(i) = k]]

IndexOf(s, x) == CHOOSE i \in 1..Len(s) : s[i] = x /\ \A j \in 1..(i-1) : s[j] # x
InSeq(s, x)   == \E i \in 1..Len(s) : s[i] = x
RemoveAt(s, i) == SubSeq(s, 1, i-1) \o SubSeq(s, i+1, Len(s))

----------------------------------------------------------------------------
(* Requirements/sample_scehduler.py : parameters                           *)

LEAD == "Patty Golden"
ALL_PEOPLE == << "Patty Golden", "Nicole Dempster", "Vicki Theler", "Mayra Bradley",
                 "Lisa Dixon", "Shala Johnson", "Chloe Gray", "Tash Jaramillo",
                 "NewHire A", "NewHire B", "NewHire C" >>
UNFILLED == "UNFILLED"

BASE_TARGET(p) ==
    IF p = LEAD THEN 60
    ELSE IF p = "Nicole Dempster" THEN 30
    ELSE IF p = "Vicki Theler" THEN 20
    ELSE 40

NIGHTS_ONLY == {"Nicole Dempster"}
CANNOT_WORK_DOW == [p \in {"Mayra Bradley"} |-> {"Fri"}]
DAYS_ONLY == {LEAD}
MIN_REST_HOURS == 10
MAX_CONSECUTIVE_DAYS == 5

hours_between(ts, te) ==
    LET e == IF te <= ts THEN te + DayHalfHours ELSE te
    IN e - ts

DAY12  == << "DAY12",  T(7, 0),  T(19, 0) >>
PATTY8 == << "PATTY8", T(8, 0),  T(16, 0) >>
EARLY1 == << "EARLY1", T(7, 0),  T(8, 0) >>
LATE3  == << "LATE3",  T(16, 0), T(19, 0) >>
N12    == << "N12",    T(19, 0), T(7, 0) >>
N105_A == << "N105A",  T(19, 0), T(5, 30) >>
N105_B == << "N105B",  T(21, 30), T(8, 0) >>

\* a slot is the tuple (period, role, start, end)
day_slots(date) ==
    IF weekday(date) < 5
    THEN << << "Day", "D1", DAY12[2], DAY12[3] >>,
            << "Day", "D2", DAY12[2], DAY12[3] >>,
            << "Day", "D3", DAY12[2], DAY12[3] >>,
            << "Day", "PATTY",  PATTY8[2], PATTY8[3] >>,
            << "Day", "EARLY1", EARLY1[2], EARLY1[3] >>,
            << "Day", "LATE3",  LATE3[2],  LATE3[3] >> >>
    ELSE << << "Day", "D1", DAY12[2], DAY12[3] >>,
            << "Day", "D2", DAY12[2], DAY12[3] >>,
            << "Day", "D3", DAY12[2], DAY12[3] >>,
            << "Day", "D4", DAY12[2], DAY12[3] >> >>

night_slots(date) ==
    << << "Night", "N1", N105_A[2], N105_A[3] >>,
       << "Night", "N2", N105_B[2], N105_B[3] >>,
       << "Night", "N3", N12[2],    N12[3] >> >>

slots_for_day(date) == night_slots(date) \o day_slots(date)

week_start(date) ==
    IF weekday(date) = 6 THEN date ELSE date - (weekday(date) + 1)

\* an end instant that never moves to the next day (sensitivity variant for C40)
end_instant_same_day(date, start_t, end_t) == combine(date, end_t)

\* the end instant of a shift of the given date: an overnight shift ends the next day
end_instant(date, start_t, end_t) ==
    IF end_t <= start_t THEN combine(date, end_t) + DayHalfHours ELSE combine(date, end_t)

\* lines 89-117: may person p take a shift of the period on the date
can_work(p, date, period, start_t, end_t, led, wdc) ==
    IF p \in NIGHTS_ONLY /\ period # "Night" THEN FALSE
    ELSE IF p \in DAYS_ONLY /\ period # "Day" THEN FALSE
    ELSE IF p \in DOMAIN CANNOT_WORK_DOW /\ strftime_a(date) \in CANNOT_WORK_DOW[p] THEN FALSE
    ELSE IF p \in DOMAIN led /\ (combine(date, start_t) - led[p]) < Hrs(MIN_REST_HOURS) THEN FALSE
    ELSE LET wd == GetOr(wdc, p, << >>) IN
         IF wd # << >> /\ (date - wd[Len(wd)]) = 1 /\ Len(wd) >= MAX_CONSECUTIVE_DAYS
         THEN FALSE
         ELSE TRUE

add_worked_day(p, date, wdc) ==
    LET seq == GetOr(wdc, p, << >>) IN
    IF seq = << >> \/ seq[Len(seq)] # date
    THEN IF seq # << >> /\ (date - seq[Len(seq)]) # 1
         THEN Put(wdc, p, << date >>)
         ELSE Put(wdc, p, Append(seq, date))
    ELSE Put(wdc, p, seq)

\* weekly_hours_by_week is a defaultdict of defaultdict(float)
WeekHours(whbw, wk, p) == GetOr(whbw, << wk, p >>, 0)

\* choose_person: the sorted list of candidate tuples (under base, ot, wh, p)
choose_candidates(date, period, start_t, end_t) ==
    LET wk == week_start(date)
        Elig(p) == p # LEAD /\ can_work(p, date, period, start_t, end_t, last_end_dt, worked_days_seq)
        ps == SelectSeqIdx(PEOPLE, Elig)
        Tup(p) == LET wh == WeekHours(weekly_hours_by_week, wk, p)
                      base == Hrs(BASE_TARGET(p))
                  IN << wh < base, Max(0, wh - base), wh, p >>
        cs == [i \in 1..Len(ps) |-> Tup(ps[i])]
        Key(t) == << IF t[1] THEN 0 ELSE 1, t[2], t[3] >>
    IN StableSort(cs, Key)

choose_person(date, period, start_t, end_t) ==
    LET cs == choose_candidates(date, period, start_t, end_t)
    IN [i \in 1..Len(cs) |-> cs[i][4]]

\* an assign() that writes its row over the last row of the list instead of appending
\* it (sensitivity variant for C34)
assign_over_last(p, date, period, role, start_t, end_t, st) ==
    LET hrs == hours_between(start_t, end_t)
        wk  == week_start(date)
        row == [date |-> date, period |-> period, role |-> role, person |-> p,
                start |-> start_t, end |-> end_t, hours |-> hrs, week_start |-> wk]
    IN [ assignments |-> IF st.assignments = << >> THEN << row >>
                         ELSE [st.assignments EXCEPT ![Len(st.assignments)] = row],
         weekly_hours |-> Put(st.weekly_hours, p, GetOr(st.weekly_hours, p, 0) + hrs),
         weekly_hours_by_week |-> Put(st.weekly_hours_by_week, << wk, p >>,
                                      WeekHours(st.weekly_hours_by_week, wk, p) + hrs),
         last_end_dt |-> Put(st.last_end_dt, p, end_instant(date, start_t, end_t)),
         worked_days_seq |-> add_worked_day(p, date, st.worked_days_seq) ]

\* the effect of assign() on the ledgers, as a record of the new values
assign(p, date, period, role, start_t, end_t, st) ==
    LET hrs == hours_between(start_t, end_t)
        wk  == week_start(date)
    IN [ assignments |-> Append(st.assignments,
                            [date |-> date, period |-> period, role |-> role, person |-> p,
                             start |-> start_t, end |-> end_t, hours |-> hrs, week_start |-> wk]),
         weekly_hours |-> Put(st.weekly_hours, p, GetOr(st.weekly_hours, p, 0) + hrs),
         weekly_hours_by_week |-> Put(st.weekly_hours_by_week, << wk, p >>,
                                      WeekHours(st.weekly_hours_by_week, wk, p) + hrs),
         last_end_dt |-> Put(st.last_end_dt, p, end_instant(date, start_t, end_t)),
         worked_days_seq |-> add_worked_day(p, date, st.worked_days_seq) ]

RefState == [ assignments |-> assignments, weekly_hours |-> weekly_hours,
              weekly_hours_by_week |-> weekly_hours_by_week,
              last_end_dt |-> last_end_dt, worked_days_seq |-> worked_days_seq ]

RefSet(st) ==
    /\ assignments' = st.assignments
    /\ weekly_hours' = st.weekly_hours
    /\ weekly_hours_by_week' = st.weekly_hours_by_week
    /\ last_end_dt' = st.last_end_dt
    /\ worked_days_seq' = st.worked_days_seq

RefDate == start_date + d

\* lines 7-25 and 127-133: the script's own configuration (start_date = 2025-10-05,
\* a Sunday, which is day 13; weeks = 4; the eleven PEOPLE) and its empty ledgers
RefStart ==
    /\ PEOPLE = ALL_PEOPLE
    /\ start_date = 13
    /\ days_total = 4 * 7
    /\ d = 0
    /\ ref_pc = "night"
    /\ slot_i = 1
    /\ assignments = << >>
    /\ weekly_hours = EmptyDict
    /\ weekly_hours_by_week = EmptyDict
    /\ last_end_dt = EmptyDict
    /\ worked_days_seq = EmptyDict
    /\ candidates = << >>
    /\ person = UNFILLED
    /\ viol = << >>

\* build loop, step 1: one night slot
RefNight ==
    /\ ref_pc = "night"
    /\ d < days_total
    /\ LET s  == night_slots(RefDate)[slot_i]
           cs == choose_candidates(RefDate, s[1], s[3], s[4])
           ranked == [i \in 1..Len(cs) |-> cs[i][4]]
           nic == "Nicole Dempster"
           picks == IF InSeq(ranked, nic)
                       /\ 10 * WeekHours(weekly_hours_by_week, week_start(RefDate), nic)
                            < 10 * Hrs(BASE_TARGET(nic)) - 2
                    THEN << nic >> \o RemoveAt(ranked, IndexOf(ranked, nic))
                    ELSE ranked
           who == IF picks # << >> THEN picks[1] ELSE UNFILLED
       IN /\ candidates' = cs
          /\ person' = who
          /\ RefSet(assign(who, RefDate, s[1], s[2], s[3], s[4], RefState))
    /\ IF slot_i < Len(night_slots(RefDate))
       THEN slot_i' = slot_i + 1 /\ ref_pc' = "night"
       ELSE slot_i' = 1 /\ ref_pc' = "lead"
    /\ UNCHANGED << PEOPLE, start_date, days_total, d, viol, engVars, appVars, fixVars, tradeVars >>

\* build loop, step 2: the lead's three slots on a weekday
RefLead ==
    /\ ref_pc = "lead"
    /\ LET st0 == RefState
           Try(st, role, sh) ==
               IF can_work(LEAD, RefDate, "Day", sh[2], sh[3], st.last_end_dt, st.worked_days_seq)
               THEN assign(LEAD, RefDate, "Day", role, sh[2], sh[3], st)
               ELSE st
           st1 == Try(st0, "PATTY", PATTY8)
           st2 == Try(st1, "EARLY1", EARLY1)
           st3 == Try(st2, "LATE3", LATE3)
       IN IF weekday(RefDate) < 5 THEN RefSet(st3) ELSE RefSet(st0)
    /\ ref_pc' = "day"
    /\ slot_i' = 1
    /\ UNCHANGED << PEOPLE, start_date, days_total, d, candidates, person, viol, engVars, appVars, fixVars, tradeVars >>

\* build loop, step 3: one day slot
RefDay ==
    /\ ref_pc = "day"
    /\ LET s == day_slots(RefDate)[slot_i]
           taken == s[2] \in {"PATTY", "EARLY1", "LATE3"} /\ weekday(RefDate) < 5
                    /\ \E i \in 1..Len(assignments) :
                          /\ assignments[i].date = RefDate
                          /\ assignments[i].period = "Day"
                          /\ assignments[i].role = s[2]
           cs == choose_candidates(RefDate, s[1], s[3], s[4])
           who == IF cs # << >> THEN cs[1][4] ELSE UNFILLED
       IN IF taken
          THEN RefSet(RefState) /\ UNCHANGED << candidates, person >>
          ELSE /\ candidates' = cs
               /\ person' = who
               /\ RefSet(assign(who, RefDate, s[1], s[2], s[3], s[4], RefState))
    /\ IF slot_i < Len(day_slots(RefDate))
       THEN slot_i' = slot_i + 1 /\ ref_pc' = "day" /\ d' = d
       ELSE /\ slot_i' = 1
            /\ d' = d + 1
            /\ ref_pc' = IF d + 1 < days_total THEN "night" ELSE "done"
    /\ UNCHANGED << PEOPLE, start_date, days_total, viol, engVars, appVars, fixVars, tradeVars >>

\* lines 215-237: the violations of the coverage audit, in the order they are appended;
\* a row counts for a sample of its own date only, its end moved to the next day when
\* it is not after its start
sample_coverage(df) ==
    LET need(k) == IF T(7, 0) <= k /\ k < T(19, 0) THEN 4 ELSE 3
        covers(r, k) ==
            LET rs == r.start
                re == IF r.end <= r.start THEN r.end + DayHalfHours ELSE r.end
            IN Max(rs, k) < Min(re, k + 1) /\ r.person # UNFILLED
        have(day, k) ==
            Cardinality({ i \in 1..Len(df) : df[i].date = day /\ covers(df[i], k) })
        sample(n) ==
            LET day == start_date + ((n - 1) \div DayHalfHours)
                k == (n - 1) % DayHalfHours
            IN [date |-> day, time |-> k, needed |-> need(k), have |-> have(day, k)]
        all == [n \in 1..(days_total * DayHalfHours) |-> sample(n)]
    IN SelectSeq(all, LAMBDA v : v.have < v.needed)

\* line 239: viol = sample_coverage(df), after the build loop
RefAudit ==
    /\ ref_pc = "done"
    /\ viol' = sample_coverage(assignments)
    /\ ref_pc' = "audited"
    /\ UNCHANGED << PEOPLE, start_date, days_total, d, slot_i, assignments, weekly_hours,
                    weekly_hours_by_week, last_end_dt, worked_days_seq, candidates, person,
                    engVars, appVars, fixVars, tradeVars >>

RefNext == RefNight \/ RefLead \/ RefDay \/ RefAudit

\* the table of one date in which the slots whose index is in filled are staffed, each
\* by a different person (the lead in the PATTY slot), and the others are UNFILLED
AuditTable(date, filled) ==
    LET slots == slots_for_day(date)
        empty == [ assignments |-> << >>, weekly_hours |-> EmptyDict,
                   weekly_hours_by_week |-> EmptyDict, last_end_dt |-> EmptyDict,
                   worked_days_seq |-> EmptyDict ]
        who(i) == IF i \notin filled THEN UNFILLED
                  ELSE IF slots[i][2] = "PATTY" THEN LEAD ELSE ALL_PEOPLE[i + 1]
        B[i \in 0..Len(slots)] ==
            IF i = 0 THEN empty
            ELSE assign(who(i), date, slots[i][1], slots[i][2], slots[i][3], slots[i][4], B[i-1])
    IN B[Len(slots)]

\* the script at line 239 with a one-day table: the audit of every staffing of one date
AuditStart ==
    /\ PEOPLE = ALL_PEOPLE
    /\ start_date \in StartDates
    /\ days_total = 1
    /\ d = 1
    /\ ref_pc = "done"
    /\ slot_i = 1
    /\ \E filled \in SUBSET (1..Len(slots_for_day(start_date))) :
          LET st == AuditTable(start_date, filled)
          IN /\ assignments = st.assignments
             /\ weekly_hours = st.weekly_hours
             /\ weekly_hours_by_week = st.weekly_hours_by_week
             /\ last_end_dt = st.last_end_dt
             /\ worked_days_seq = st.worked_days_seq
    /\ candidates = << >>
    /\ person = UNFILLED
    /\ viol = << >>


----------------------------------------------------------------------------
(* scheduling_engine.py : SchedulingEngine                                 *)

\* a shift is the tuple (role, start_time, end_time, hours)
eng_day_shifts_weekday ==
    << << "D1", T(7, 0), T(19, 0), Hrs(12) >>,
       << "D2", T(7, 0), T(19, 0), Hrs(12) >>,
       << "D3", T(7, 0), T(19, 0), Hrs(12) >>,
       << "PATTY", T(8, 0), T(16, 0), Hrs(8) >>,
       << "EARLY1", T(7, 0), T(8, 0), Hrs(1) >>,
       << "LATE3", T(16, 0), T(19, 0), Hrs(3) >> >>

eng_day_shifts_weekend ==
    << << "D1", T(7, 0), T(19, 0), Hrs(12) >>,
       << "D2", T(7, 0), T(19, 0), Hrs(12) >>,
       << "D3", T(7, 0), T(19, 0), Hrs(12) >>,
       << "D4", T(7, 0), T(19, 0), Hrs(12) >> >>

eng_night_shifts ==
    << << "N1", T(19, 0), T(5, 30), 21 >>,
       << "N2", T(21, 30), T(8, 0), 21 >>,
       << "N3", T(19, 0), T(7, 0), Hrs(12) >> >>

\* database.py 84-107: the rows init_db inserts, in rowid order; the columns it does
\* not name take their defaults (lines 19-22: max_consecutive_days 5, min_rest_hours 10,
\* cannot_work_days NULL, active 1) and nothing in the repository changes a row
EngStaff ==
    LET row(id, name, shift_type, hours_per_week, special_schedule) ==
            [id |-> id, name |-> name, shift_type |-> shift_type,
             hours_per_week |-> hours_per_week, special_schedule |-> special_schedule,
             max_consecutive_days |-> 5, min_rest_hours |-> 10,
             cannot_work_days |-> {}, active |-> TRUE]
    IN << row(1, "Patty Golden", "DAY", 60, "LEAD"),
          row(2, "Nicole Dempster", "NIGHT", 30, ""),
          row(3, "Vicki Theler", "BOTH", 20, "LEGAL_CAP"),
          row(4, "Mayra Bradley", "BOTH", 40, ""),
          row(5, "Lisa Dixon", "BOTH", 40, ""),
          row(6, "Shala Johnson", "BOTH", 40, ""),
          row(7, "Chloe Gray", "BOTH", 40, ""),
          row(8, "Tash Jaramillo", "BOTH", 40, ""),
          row(9, "NewHire A", "BOTH", 40, "NEW_HIRE"),
          row(10, "NewHire B", "BOTH", 40, "NEW_HIRE"),
          row(11, "NewHire C", "BOTH", 40, "NEW_HIRE") >>

get_employee_weekly_hours(employee_id) == 0

\* get_available_employees without the test of the shift type (sensitivity variant for C3)
get_available_employees_any_type(employees, date, shift_type, lse, cd) ==
    LET Ok(emp) ==
            /\ ~(strftime_a(date) \in emp.cannot_work_days)
            /\ ~(emp.id \in DOMAIN lse
                 /\ combine(date, T(0, 0)) - lse[emp.id] < Hrs(emp.min_rest_hours))
            /\ ~(GetOr(cd, emp.id, 0) >= emp.max_consecutive_days)
            /\ ~(emp.special_schedule = "LEAD" /\ shift_type = "Night")
            /\ ~(emp.special_schedule = "LEGAL_CAP"
                 /\ Hrs(get_employee_weekly_hours(emp.id)) >= Hrs(emp.hours_per_week))
    IN SelectSeqIdx(employees, Ok)

get_available_employees(employees, date, shift_type, lse, cd) ==
    LET Ok(emp) ==
            /\ ~(emp.shift_type = "DAY" /\ shift_type = "Night")
            /\ ~(emp.shift_type = "NIGHT" /\ shift_type = "Day")
            /\ ~(strftime_a(date) \in emp.cannot_work_days)
            /\ ~(emp.id \in DOMAIN lse
                 /\ combine(date, T(0, 0)) - lse[emp.id] < Hrs(emp.min_rest_hours))
            /\ ~(GetOr(cd, emp.id, 0) >= emp.max_consecutive_days)
            /\ ~(emp.special_schedule = "LEAD" /\ shift_type = "Night")
            /\ ~(emp.special_schedule = "LEGAL_CAP"
                 /\ Hrs(get_employee_weekly_hours(emp.id)) >= Hrs(emp.hours_per_week))
    IN SelectSeqIdx(employees, Ok)

assign_shifts(shifts, available_employees, eh, date, shift_type) ==
    LET Key(emp) == << GetOr(eh, emp.id, 0), 0 - emp.hours_per_week >>
        sorted == StableSort(available_employees, Key)
        n == IF Len(shifts) < Len(sorted) THEN Len(shifts) ELSE Len(sorted)
    IN [i \in 1..n |->
          [employee_id |-> sorted[i].id, employee_name |-> sorted[i].name,
           shift_type |-> shift_type, role |-> shifts[i][1],
           start_time |-> shifts[i][2], end_time |-> shifts[i][3], hours |-> shifts[i][4]]]

update_consecutive_days(cd, employee_id, current_date) == cd

clear_non_working_days(cd, asg) ==
    LET working_today == { asg[i].employee_id : i \in 1..Len(asg) }
    IN [emp_id \in DOMAIN cd |-> IF emp_id \notin working_today THEN 0 ELSE cd[emp_id]]

\* line 34: SELECT * FROM employees WHERE active = 1
eng_active == SelectSeqIdx(eng_employees, LAMBDA e : e.active)

\* line 47: current_date is never advanced, so every week visits the same dates
EngDate == eng_start_date + eng_day

EngIdle ==
    /\ eng_employees = << >>
    /\ eng_start_date = 0
    /\ eng_weeks = 0
    /\ eng_week = 0
    /\ eng_day = 0
    /\ eng_pc = "idle"
    /\ schedule_data = << >>
    /\ employee_hours = EmptyDict
    /\ last_shift_end = EmptyDict
    /\ consecutive_days = EmptyDict
    /\ all_assignments = << >>

RefIdle ==
    /\ PEOPLE = << >>
    /\ start_date = 0
    /\ days_total = 0
    /\ d = 0
    /\ ref_pc = "idle"
    /\ slot_i = 1
    /\ assignments = << >>
    /\ weekly_hours = EmptyDict
    /\ weekly_hours_by_week = EmptyDict
    /\ last_end_dt = EmptyDict
    /\ worked_days_seq = EmptyDict
    /\ candidates = << >>
    /\ person = UNFILLED
    /\ viol = << >>

EngStart ==
    /\ eng_employees = EngStaff
    /\ eng_start_date \in EngStartDates
    /\ eng_weeks \in 1..EngWeeks
    /\ eng_week = 0
    /\ eng_day = 0
    /\ eng_pc = "assign"
    /\ schedule_data = << >>
    /\ employee_hours = EmptyDict
    /\ last_shift_end = EmptyDict
    /\ consecutive_days = EmptyDict
    /\ all_assignments = << >>

\* lines 47-62: the pools and the assignments of one date
EngAssign ==
    /\ eng_pc = "assign"
    /\ LET date == EngDate
           is_weekend == weekday(date) >= 5
           day_shifts == IF is_weekend THEN eng_day_shifts_weekend ELSE eng_day_shifts_weekday
           available_employees ==
               get_available_employees(eng_active, date, "Day", last_shift_end, consecutive_days)
           day_assignments ==
               assign_shifts(day_shifts, available_employees, employee_hours, date, "Day")
           eng_available_night ==
               get_available_employees(eng_active, date, "Night", last_shift_end, consecutive_days)
           night_assignments ==
               assign_shifts(eng_night_shifts, eng_available_night, employee_hours, date, "Night")
           \* get_available_employees reads consecutive_days[id] of every employee that
           \* reaches the check, which creates the key in the defaultdict
           Reaches(emp, st) ==
               /\ ~(emp.shift_type = "DAY" /\ st = "Night")
               /\ ~(emp.shift_type = "NIGHT" /\ st = "Day")
               /\ ~(strftime_a(date) \in emp.cannot_work_days)
               /\ ~(emp.id \in DOMAIN last_shift_end
                    /\ combine(date, T(0, 0)) - last_shift_end[emp.id] < Hrs(emp.min_rest_hours))
           touched == { eng_active[i].id : i \in
                          { j \in 1..Len(eng_active) :
                              Reaches(eng_active[j], "Day") \/ Reaches(eng_active[j], "Night") } }
       IN /\ all_assignments' = day_assignments \o night_assignments
          /\ consecutive_days' = [k \in (DOMAIN consecutive_days) \cup touched |->
                                     GetOr(consecutive_days, k, 0)]
    /\ eng_pc' = "save"
    /\ UNCHANGED << eng_employees, eng_start_date, eng_weeks, eng_week, eng_day,
                    schedule_data, employee_hours, last_shift_end, refVars, appVars, fixVars, tradeVars >>

\* lines 63-86: save the assignments of the date and update the tracking variables
EngSave ==
    /\ eng_pc = "save"
    /\ LET date == EngDate
           n == Len(all_assignments)
           St[i \in 0..n] ==
               IF i = 0
               THEN [sd |-> schedule_data, eh |-> employee_hours,
                     lse |-> last_shift_end, cd |-> consecutive_days]
               ELSE LET a == all_assignments[i]
                        p == St[i-1]
                        id == a.employee_id
                    IN [sd |-> Append(p.sd,
                                 [employee_id |-> id, employee_name |-> a.employee_name,
                                  date |-> date, shift_type |-> a.shift_type, role |-> a.role,
                                  start_time |-> a.start_time, end_time |-> a.end_time,
                                  hours |-> a.hours,
                                  is_overtime |-> GetOr(p.eh, id, 0) > Hrs(40)]),
                        eh |-> Put(p.eh, id, GetOr(p.eh, id, 0) + a.hours),
                        lse |-> Put(p.lse, id, combine(date, a.end_time)),
                        cd |-> update_consecutive_days(
                                   Put(p.cd, id, GetOr(p.cd, id, 0) + 1), id, date)]
       IN /\ schedule_data' = St[n].sd
          /\ employee_hours' = St[n].eh
          /\ last_shift_end' = St[n].lse
          /\ consecutive_days' = clear_non_working_days(St[n].cd, all_assignments)
    /\ IF eng_day < 6
       THEN eng_day' = eng_day + 1 /\ eng_week' = eng_week /\ eng_pc' = "assign"
       ELSE /\ eng_day' = 0
            /\ eng_week' = eng_week + 1
            /\ eng_pc' = IF eng_week + 1 < eng_weeks THEN "assign" ELSE "done"
    /\ UNCHANGED << eng_employees, eng_start_date, eng_weeks, all_assignments, refVars, appVars, fixVars, tradeVars >>

EngNext == EngAssign \/ EngSave

----------------------------------------------------------------------------
(* app.py : generate_schedule                                              *)

\* rows of the employees table
AppStaff ==
    << [id |-> 1, name |-> "Patty Golden", is_lead |-> TRUE, nights_only |-> FALSE,
        max_hours_per_week |-> 40, cannot_work_days |-> {}, active |-> TRUE],
       [id |-> 2, name |-> "Nicole Dempster", is_lead |-> FALSE, nights_only |-> TRUE,
        max_hours_per_week |-> 30, cannot_work_days |-> {}, active |-> TRUE],
       [id |-> 3, name |-> "Vicki Theler", is_lead |-> FALSE, nights_only |-> FALSE,
        max_hours_per_week |-> 20, cannot_work_days |-> {}, active |-> TRUE],
       [id |-> 4, name |-> "Mayra Bradley", is_lead |-> FALSE, nights_only |-> FALSE,
        max_hours_per_week |-> 40, cannot_work_days |-> {"Fri"}, active |-> TRUE],
       [id |-> 5, name |-> "Lisa Dixon", is_lead |-> FALSE, nights_only |-> FALSE,
        max_hours_per_week |-> 40, cannot_work_days |-> {}, active |-> TRUE],
       [id |-> 6, name |-> "Shala Johnson", is_lead |-> FALSE, nights_only |-> FALSE,
        max_hours_per_week |-> 40, cannot_work_days |-> {}, active |-> TRUE],
       [id |-> 7, name |-> "Chloe Gray", is_lead |-> FALSE, nights_only |-> FALSE,
        max_hours_per_week |-> 40, cannot_work_days |-> {}, active |-> TRUE] >>

\* str.lower() of the names the tables and the request bodies hold
lower(name) ==
    CASE name = "Patty Golden" -> "patty golden"
      [] name = "Nicole Dempster" -> "nicole dempster"
      [] name = "Vicki Theler" -> "vicki theler"
      [] name = "Mayra Bradley" -> "mayra bradley"
      [] name = "Lisa Dixon" -> "lisa dixon"
      [] name = "Shala Johnson" -> "shala johnson"
      [] name = "Chloe Gray" -> "chloe gray"
      [] OTHER -> name

\* the place of name.lower() among the lowercase names in the order in which Python
\* compares texts: equal for names that differ in case only
lower_rank(name) ==
    IndexOf(<< "chloe gray", "lisa dixon", "mayra bradley", "nicole dempster",
               "patty golden", "shala johnson", "vicki theler" >>, lower(name))

B2N(b) == IF b THEN 1 ELSE 0

\* a query that ignores the active flag (sensitivity variant for C22)
app_all_rows == app_employees

\* lines 239 and 495: Employee.query.filter_by(active=True).all()
app_active == SelectSeqIdx(app_employees, LAMBDA e : e.active)

\* lines 229-240: GET /api/employees returns the active employees
get_employees == app_active

\* line 495-503
app_employees_sorted ==
    LET active == app_active
        Key(e) == << B2N(~e.is_lead), B2N(~e.nights_only), lower_rank(e.name) >>
    IN StableSort(active, Key)

\* an optional datetime: << >> is None, << t >> is the instant t
NoneDt == << >>
date_of(t) == t \div DayHalfHours

current_date == app_start_dt + day_idx

DRoles == << "D0", "D1", "D2", "D3", "D4" >>
NRoles == << "N1", "N2", "N3" >>

\* the cannot_work_days column holds JSON text: a list of day names is modelled as
\* the set of the names, the text 'null' (json.dumps(None)) as NullJson
NullJson == {"null"}

\* data.get(key, default) of a request body, a record of the fields it carries
Field(data, key, dflt) == IF key \in DOMAIN data THEN data[key] ELSE dflt

\* a JSON value where the code expects a number: << "int", n >> is the number n,
\* << "numeral", n >> the text of the digits of n, << "text", 0 >> any other text and
\* << "null", 0 >> null.  int(x) of lines 265 and 293 gives n for the first two and
\* raises for the others (ValueError, TypeError)
int_raises(v) == v[1] \notin {"int", "numeral"}
int_of(v) == v[2]

\* lines 243-273: POST /api/employees; an exception of the constructor arguments
\* (int() of line 265) ends in the except branch: rollback, 400, nothing stored
add_employee(rows, data) ==
    IF "name" \notin DOMAIN data \/ "email" \notin DOMAIN data
    THEN [rows |-> rows, code |-> 400]
    ELSE IF int_raises(Field(data, "max_hours_per_week", << "int", 40 >>))
    THEN [rows |-> rows, code |-> 400]
    ELSE [rows |-> Append(rows,
                     [id |-> Len(rows) + 1, name |-> data.name,
                      is_lead |-> Field(data, "is_lead", FALSE),
                      nights_only |-> Field(data, "nights_only", FALSE),
                      max_hours_per_week |->
                          int_of(Field(data, "max_hours_per_week", << "int", 40 >>)),
                      cannot_work_days |-> Field(data, "cannot_work_days", {}),
                      active |-> TRUE]),
          code |-> 201]

\* Employee.query.get(emp_id): the index of the row, 0 when there is none
employee_get(rows, emp_id) ==
    IF \E n \in 1..Len(rows) : rows[n].id = emp_id
    THEN CHOOSE n \in 1..Len(rows) : rows[n].id = emp_id
    ELSE 0

\* lines 276-300: PUT /api/employees/<emp_id> on the row as it is read at line 279.
\* No row or an inactive row is answered 404.  The supplied fields are assigned to
\* the object (283-295); an exception of int() at line 293 ends in the except
\* branch: rollback, 400, the row as it was.  Otherwise the commit of line 296
\* writes the columns whose value has changed (changes) and the answer is 200.
update_employee(rows, emp_id, data) ==
    LET n == employee_get(rows, emp_id)
        value(f) == IF f = "max_hours_per_week" THEN int_of(data[f]) ELSE data[f]
    IN IF n = 0 THEN [code |-> 404, changes |-> EmptyDict]
       ELSE IF ~rows[n].active THEN [code |-> 404, changes |-> EmptyDict]
       ELSE IF "max_hours_per_week" \in DOMAIN data /\ int_raises(data.max_hours_per_week)
       THEN [code |-> 400, changes |-> EmptyDict]
       ELSE [code |-> 200,
             changes |-> [f \in { g \in (DOMAIN data) \cap (DOMAIN rows[n] \ {"id", "active"}) :
                                     value(g) # rows[n][g] } |-> value(f)]]

\* lines 303-313: DELETE /api/employees/<emp_id> on the row as it is read at line
\* 308; lines 311-312 then clear the flag and commit
deactivate_employee(rows, emp_id) ==
    LET n == employee_get(rows, emp_id)
    IN IF n = 0 THEN [code |-> 404, changes |-> EmptyDict]
       ELSE IF ~rows[n].active THEN [code |-> 404, changes |-> EmptyDict]
       ELSE [code |-> 200, changes |-> [active |-> FALSE]]

\* db.session.commit() of a handler that changed one row it had read: the changed
\* columns are written, the others stay as they are in the table
commit_changes(rows, id, changes) ==
    [n \in 1..Len(rows) |->
        IF rows[n].id # id THEN rows[n]
        ELSE [f \in DOMAIN rows[n] |->
                 IF f \in DOMAIN changes THEN changes[f] ELSE rows[n][f]]]

\* the employees table: the first AppRoster rows, each active or not (each row is
\* what add_employee stores for its body, deactivate_employee clears the flag)
AppRosters ==
    { [i \in 1..AppRoster |-> [AppStaff[i] EXCEPT !.active = (i \in S)]] :
        S \in SUBSET (1..AppRoster) }

\* the request bodies of the employee endpoints: the body of the next row of
\* AppStaff, a body without a name, a body whose hours are null, and the body of a
\* nights-only employee who works Mondays only and whose name is the name of a row
\* of the table in lowercase (no column of the table is unique but the id); a
\* change to nights-only, a null blackout, and a change to nights-only with null hours
AppStartDay == CHOOSE x \in AppStartDates : \A y \in AppStartDates : x <= y
AppAddBodies ==
    LET e == AppStaff[AppRoster + 1]
    IN { [name |-> e.name, email |-> "e", is_lead |-> e.is_lead, nights_only |-> e.nights_only,
          max_hours_per_week |-> << "int", e.max_hours_per_week >>,
          cannot_work_days |-> e.cannot_work_days],
         [email |-> "e"],
         [name |-> e.name, email |-> "e", max_hours_per_week |-> << "null", 0 >>],
         [name |-> lower(AppStaff[2].name), email |-> "e", nights_only |-> TRUE,
          cannot_work_days |-> {"Tue", "Wed", "Thu", "Fri", "Sat", "Sun"}] }
AppUpdateBodies ==
    { [nights_only |-> TRUE], [cannot_work_days |-> NullJson],
      [nights_only |-> TRUE, max_hours_per_week |-> << "null", 0 >>] }
\* the employee the PUT and DELETE requests name
AppEditIds == {AppRoster}

\* the JSON fields of POST /api/schedule/generate: a field is absent, a text that
\* does not parse, or a value
AppDateInputs == { << "date", x >> : x \in AppStartDates } \cup { << "absent", 0 >>, << "invalid", 0 >> }
AppWeeksInputs == { << "int", w >> : w \in 0..AppWeeks } \cup { << "absent", 0 >>, << "text", 0 >> }

\* the published rows as the schedule pages show them: without their ids
RowView(rows) ==
    { [employee_id |-> rows[i].employee_id, schedule_date |-> rows[i].schedule_date,
       shift_start |-> rows[i].shift_start, shift_end |-> rows[i].shift_end,
       shift_type |-> rows[i].shift_type, role |-> rows[i].role] : i \in 1..Len(rows) }

\* lines 377-380: the next Monday, today when today is a Monday
next_monday(t) == t + ((7 - weekday(t)) % 7)

\* line 385: Schedule.query.filter(date >= start_dt, date < end_dt).delete()
\* a delete that spares the first date of the range (sensitivity variant for C11)
app_delete_range_after_start(rows, start_dt, end_dt) ==
    SelectSeqIdx(rows, LAMBDA r : ~(r.schedule_date > start_dt /\ r.schedule_date < end_dt))

app_delete_range(rows, start_dt, end_dt) ==
    SelectSeqIdx(rows, LAMBDA r : ~(r.schedule_date >= start_dt /\ r.schedule_date < end_dt))

\* the autoincrement key of the next row
NextId(rows) == 1 + Max(0, IF rows = << >> THEN 0
                           ELSE CHOOSE m \in { rows[i].id : i \in 1..Len(rows) } :
                                   \A i \in 1..Len(rows) : rows[i].id <= m)

AppIdle ==
    /\ app_employees = << >>
    /\ app_schedules = << >>
    /\ timeoff_requests = << >>
    /\ app_start_dt = 0
    /\ app_days = 0
    /\ day_idx = 0
    /\ app_pc = "off"
    /\ employees_sorted = << >>
    /\ state = EmptyDict
    /\ app_assignments = << >>
    /\ day_pool_sorted = << >>
    /\ night_pool_sorted = << >>
    /\ assigned_today = << >>
    /\ day_assigned = << >>
    /\ app_responses = << >>
    /\ app_pending = << >>
    /\ app_entered = << >>
    /\ app_returned = << >>

\* the server of app.py before the first generation request, with one of the
\* employees tables rosters and one of the timeoff_requests tables requests, and no
\* published row
AppServer(rosters, requests) ==
    /\ app_employees \in rosters
    /\ app_schedules = << >>
    /\ timeoff_requests \in requests
    /\ app_start_dt = 0
    /\ app_days = 0
    /\ day_idx = 0
    /\ app_pc = "idle"
    /\ employees_sorted = << >>
    /\ state = EmptyDict
    /\ app_assignments = << >>
    /\ day_pool_sorted = << >>
    /\ night_pool_sorted = << >>
    /\ assigned_today = << >>
    /\ day_assigned = << >>
    /\ app_responses = << >>
    /\ app_pending = << >>
    /\ app_entered = << >>
    /\ app_returned = << >>

\* employees added by POST /api/employees, some deactivated, and no time-off request
AppStart == AppServer(AppRosters, {<< >>})

\* the local variables of the generate_schedule call that is computing
appLocals == << app_start_dt, app_days, day_idx, employees_sorted, state, app_assignments,
                day_pool_sorted, night_pool_sorted, assigned_today, day_assigned >>

\* what the employee endpoints of app.py leave alone
AppEmployeeFrame ==
    UNCHANGED << appLocals, app_pc, app_schedules, timeoff_requests, app_responses,
                 app_pending, app_entered, app_returned, shift_trades, trade_response,
                 today, refVars, engVars, fixVars >>

\* lines 243-273: POST /api/employees, served at any time; the row is inserted and
\* committed in one statement
AppAddEmployee ==
    /\ app_pc # "off"
    /\ Len(api_responses) + Len(api_held) < AppEdits
    /\ Len(app_employees) <= AppRoster
    /\ \E data \in AppAddBodies :
          LET r == add_employee(app_employees, data)
          IN /\ app_employees' = r.rows
             /\ api_responses' = Append(api_responses,
                   [op |-> "add", id |-> 0, code |-> r.code])
    /\ UNCHANGED api_held
    /\ AppEmployeeFrame

\* lines 276-295: PUT /api/employees/<emp_id>, served at any time, up to the commit:
\* 404 and 400 are answered at once, otherwise the handler stands before line 296
\* with the changes it is going to write (api_held)
AppUpdateEmployee ==
    /\ app_pc # "off"
    /\ Len(api_responses) + Len(api_held) < AppEdits
    /\ \E emp_id \in AppEditIds, data \in AppUpdateBodies :
          LET r == update_employee(app_employees, emp_id, data)
          IN IF r.code # 200
             THEN /\ api_responses' = Append(api_responses,
                        [op |-> "update", id |-> emp_id, code |-> r.code])
                  /\ UNCHANGED api_held
             ELSE /\ api_held' = Append(api_held,
                        [op |-> "update", id |-> emp_id, changes |-> r.changes])
                  /\ UNCHANGED api_responses
    /\ UNCHANGED app_employees
    /\ AppEmployeeFrame

\* lines 296-297: the commit of a PUT writes its changes to the row as the table
\* now holds it; 200
AppUpdateCommit ==
    /\ app_pc # "off"
    /\ \E k \in 1..Len(api_held) :
          /\ api_held[k].op = "update"
          /\ app_employees' = commit_changes(app_employees, api_held[k].id, api_held[k].changes)
          /\ api_responses' = Append(api_responses,
                [op |-> "update", id |-> api_held[k].id, code |-> 200])
          /\ api_held' = RemoveAt(api_held, k)
    /\ AppEmployeeFrame

\* lines 303-310: DELETE /api/employees/<emp_id>, served at any time, up to the
\* write: an unknown or inactive employee gets a 404, otherwise the handler stands
\* before line 311
AppDeactivate ==
    /\ app_pc # "off"
    /\ Len(api_responses) + Len(api_held) < AppEdits
    /\ \E emp_id \in AppEditIds :
          LET r == deactivate_employee(app_employees, emp_id)
          IN IF r.code # 200
             THEN /\ api_responses' = Append(api_responses,
                        [op |-> "deactivate", id |-> emp_id, code |-> r.code])
                  /\ UNCHANGED api_held
             ELSE /\ api_held' = Append(api_held,
                        [op |-> "deactivate", id |-> emp_id, changes |-> r.changes])
                  /\ UNCHANGED api_responses
    /\ UNCHANGED app_employees
    /\ AppEmployeeFrame

\* lines 311-313: the flag is cleared and committed, whatever another request has
\* done to the row since it was read; 200
AppDeactivateCommit ==
    /\ app_pc # "off"
    /\ \E k \in 1..Len(api_held) :
          /\ api_held[k].op = "deactivate"
          /\ app_employees' = commit_changes(app_employees, api_held[k].id, api_held[k].changes)
          /\ api_responses' = Append(api_responses,
                [op |-> "deactivate", id |-> api_held[k].id, code |-> 200])
          /\ api_held' = RemoveAt(api_held, k)
    /\ AppEmployeeFrame

\* the generation requests received so far: answered, returned from
\* generate_schedule, computing, or past the commit of line 386
AppInFlight ==
    Len(app_responses) + Len(app_pending) + Len(app_entered) + Len(app_returned)
      + (IF app_pc \in {"loop", "save", "error"} THEN 1 ELSE 0)

\* lines 356-386: POST /api/schedule/generate up to the commit of the delete, served
\* at any time.  A weeks that is no number raises (500), a start_date that does not
\* parse is answered 400, both before the delete.  After the commit the request
\* stands before line 388 (app_pending).
AppRequest ==
    /\ app_pc # "off"
    /\ AppInFlight < AppRequests
    /\ \E S \in AppDateInputs, W \in AppWeeksInputs :
          LET weeks == IF W[1] = "absent" THEN 1 ELSE W[2]
              start_dt == IF S[1] = "absent" THEN next_monday(today) ELSE S[2]
              total_days == weeks * 7
              end_dt == start_dt + total_days
              Reject(code) ==
                  /\ app_responses' = Append(app_responses,
                        [start_date |-> 0, weeks |-> 0, success |-> FALSE,
                         generated_shifts |-> 0, published |-> RowView(app_schedules),
                         generated |-> {}, code |-> code, read |-> << >>])
                  /\ UNCHANGED << app_schedules, app_pending >>
          IN IF W[1] = "text" THEN Reject(500)
             ELSE IF S[1] = "invalid" THEN Reject(400)
             ELSE /\ app_schedules' = app_delete_range(app_schedules, start_dt, end_dt)
                  /\ app_responses' = app_responses
                  /\ app_pending' = Append(app_pending,
                        [start_dt |-> start_dt, total_days |-> total_days])
    /\ UNCHANGED << app_employees, timeoff_requests, appLocals, app_pc,
                    app_entered, app_returned,
                    refVars, engVars, fixVars, tradeVars >>

\* lines 388 and 495: a request that has committed its delete calls
\* generate_schedule, which reads the active employees once (496-503 sort the rows
\* it read); taken at any time
AppEntry ==
    /\ \E k \in 1..Len(app_pending) :
          /\ app_entered' = Append(app_entered,
                [start_dt |-> app_pending[k].start_dt,
                 total_days |-> app_pending[k].total_days,
                 employees |-> app_employees_sorted])
          /\ app_pending' = RemoveAt(app_pending, k)
    /\ UNCHANGED << app_employees, app_schedules, timeoff_requests, appLocals, app_pc,
                    app_responses, app_returned,
                    refVars, engVars, fixVars, tradeVars >>

\* lines 504-515: the call starts from a fresh state per employee it read.  From here
\* to its return the call works on the rows it read and on its own locals only, so
\* the model computes one call at a time: a call that has read its employees waits
\* here while another one computes.  Every read and write of the tables (AppRequest,
\* AppEntry, AppSave and the other endpoints) is taken at any time.
AppBegin ==
    /\ app_pc \in {"idle", "done", "failed"}
    /\ \E k \in 1..Len(app_entered) :
          LET es == app_entered[k].employees
          IN /\ app_start_dt' = app_entered[k].start_dt
             /\ app_days' = app_entered[k].total_days
             /\ employees_sorted' = es
             /\ state' = [id \in { es[i].id : i \in 1..Len(es) } |->
                          [hours_assigned |-> 0, last_shift_end |-> NoneDt,
                           days_worked |-> 0,
                           max_hours |-> Hrs((CHOOSE e \in { es[i] : i \in 1..Len(es) } :
                                                 e.id = id).max_hours_per_week)]]
             /\ app_entered' = RemoveAt(app_entered, k)
    /\ app_assignments' = << >>
    /\ day_idx' = 0
    /\ app_pc' = IF 0 < app_days' THEN "loop" ELSE "save"
    /\ UNCHANGED << app_employees, app_schedules, timeoff_requests, day_pool_sorted,
                    night_pool_sorted, assigned_today, day_assigned, app_responses,
                    app_pending, app_returned,
                    refVars, engVars, fixVars, tradeVars >>

\* a pool that ignores the blackout weekdays (sensitivity variant for C5)
app_cant_work_never(e, weekday_name) == FALSE

\* lines 527-528: the weekday is one of the employee's blackout days
app_cant_work(e, weekday_name) == weekday_name \in e.cannot_work_days

\* an availability test without the cap on days in a row (sensitivity variant for C2)
app_available_any_streak(emp_state, cur) ==
    ~(emp_state.last_shift_end # NoneDt
      /\ combine(cur, T(7, 0)) - emp_state.last_shift_end[1] < Hrs(10))

\* lines 536-544: ten hours of rest before 07:00 of the date, and fewer than five
\* days in a row
app_available(emp_state, cur) ==
    /\ ~(emp_state.last_shift_end # NoneDt
         /\ combine(cur, T(7, 0)) - emp_state.last_shift_end[1] < Hrs(10))
    /\ ~(emp_state.days_worked >= 5)

\* the lists that begin with a member of s of the least key and go on with an
\* arrangement of the others; s is sorted by key
RECURSIVE arrangements(_)
arrangements(s) ==
    IF s = << >> THEN {<< >>}
    ELSE LET least == { i \in 1..Len(s) : lower_rank(s[i].name) = lower_rank(s[1].name) }
         IN UNION { { << s[i] >> \o t : t \in arrangements(RemoveAt(s, i)) } : i \in least }

\* lines 565-566: sorted(set(pool), key=lambda e: e.name.lower()).  A pool holds
\* every row once (lines 525-563), so set() drops none; the set holds the row
\* objects by their identity and yields them in the order of their addresses;
\* sorted() is stable, so members whose names are equal in lowercase come out in
\* the order of the set: in any order.  The value is the set of the lists the
\* statement can give
sorted_set(pool) ==
    arrangements(StableSort(pool, LAMBDA e : << lower_rank(e.name) >>))

\* lines 516-566: the day and night pools of the date cur for the employees es and
\* the ledger st, each as the set of the orders line 565 / 566 can give it; raised:
\* weekday in None of line 528 raises TypeError, and nothing catches it
app_pools(es, st, cur) ==
    LET weekday_name == strftime_a(cur)
        P[i \in 0..Len(es)] ==
            IF i = 0 THEN [st |-> st, day_pool |-> << >>, night_pool |-> << >>]
            ELSE LET e == es[i]
                     p == P[i-1]
                     s0 == p.st[e.id]
                     s1 == IF s0.last_shift_end # NoneDt
                              /\ cur - date_of(s0.last_shift_end[1]) > 1
                           THEN [s0 EXCEPT !.days_worked = 0] ELSE s0
                     available == app_available(s1, cur)
                 IN IF e.cannot_work_days = NullJson \/ app_cant_work(e, weekday_name) THEN p
                    ELSE IF ~available THEN [p EXCEPT !.st = Put(p.st, e.id, s1)]
                    ELSE IF e.nights_only
                         THEN [st |-> Put(p.st, e.id, s1), day_pool |-> p.day_pool,
                               night_pool |-> Append(p.night_pool, e)]
                         ELSE [st |-> Put(p.st, e.id, s1),
                               day_pool |-> Append(p.day_pool, e),
                               night_pool |-> IF ~e.is_lead THEN Append(p.night_pool, e)
                                              ELSE p.night_pool]
        r == P[Len(es)]
    IN [st |-> r.st,
        day_pool_sorted |-> sorted_set(r.day_pool),
        night_pool_sorted |-> sorted_set(r.night_pool),
        raised |-> \E i \in 1..Len(es) : es[i].cannot_work_days = NullJson]

\* lines 567-599: the lead's 8 hour shift; p holds the ledger (st), the rows (asg),
\* assigned_today (today) and day_assigned (da)
app_lead_shift(p, pool, cur) ==
    LET leads == SelectSeqIdx(pool, LAMBDA e : e.is_lead)
    IN IF leads # << >> /\ p.st[leads[1].id].hours_assigned < p.st[leads[1].id].max_hours
       THEN LET e == leads[1]
                es == p.st[e.id]
            IN [st |-> Put(p.st, e.id,
                          [es EXCEPT !.hours_assigned = @ + Hrs(8),
                                     !.last_shift_end = << combine(cur, T(16, 0)) >>,
                                     !.days_worked = @ + 1]),
                asg |-> Append(p.asg,
                          [employee_id |-> e.id, schedule_date |-> cur,
                           shift_start |-> T(8, 0), shift_end |-> T(16, 0), shift_type |-> "DAY",
                           role |-> "Lead",
                           is_overtime |-> es.hours_assigned + Hrs(8) > es.max_hours,
                           is_coverage |-> TRUE]),
                today |-> Append(p.today, e.id),
                da |-> Append(p.da, e.id)]
       ELSE p

\* (t + 10h30) .time()
plus_10h30(t) == (t + 21) % DayHalfHours

\* lines 600-653: the remaining day shifts
app_day_shifts(p0, pool, cur) ==
    LET required_day == 4
        L[i \in 0..Len(pool)] ==
            IF i = 0
            THEN [st |-> p0.st, asg |-> p0.asg, today |-> p0.today,
                  da |-> p0.da, remaining_day |-> required_day - Len(p0.da)]
            ELSE LET e == pool[i]
                     p == L[i-1]
                     es == p.st[e.id]
                     shift_len == 21
                     idx == Len(p.da)
                     shift_start == IF idx % 2 = 1 THEN T(7, 0) ELSE T(8, 30)
                     shift_end == plus_10h30(shift_start)
                 IN IF p.remaining_day = 0 \/ InSeq(p.da, e.id) \/ InSeq(p.today, e.id)
                       \/ e.nights_only
                    THEN p
                    ELSE [st |-> Put(p.st, e.id,
                                   [es EXCEPT !.hours_assigned = @ + shift_len,
                                              !.last_shift_end = << combine(cur, shift_end) >>,
                                              !.days_worked = @ + 1]),
                          asg |-> Append(p.asg,
                                   [employee_id |-> e.id, schedule_date |-> cur,
                                    shift_start |-> shift_start, shift_end |-> shift_end,
                                    shift_type |-> "DAY", role |-> DRoles[idx + 1],
                                    is_overtime |-> es.hours_assigned + shift_len > es.max_hours,
                                    is_coverage |-> TRUE]),
                          today |-> Append(p.today, e.id),
                          da |-> Append(p.da, e.id),
                          remaining_day |-> p.remaining_day - 1]
        r == L[Len(pool)]
    IN [st |-> r.st, asg |-> r.asg, today |-> r.today, da |-> r.da]

\* lines 654-703: the night shifts
app_night_shifts(p0, pool, cur) ==
    LET required_night == 3
        L[i \in 0..Len(pool)] ==
            IF i = 0
            THEN [st |-> p0.st, asg |-> p0.asg, today |-> p0.today,
                  na |-> << >>, remaining_night |-> required_night]
            ELSE LET e == pool[i]
                     p == L[i-1]
                     es == p.st[e.id]
                     shift_len == IF p.remaining_night = 1 /\ Len(pool) - Len(p.na) = 1
                                  THEN Hrs(12) ELSE 21
                     idx == Len(p.na)
                     shift_start == IF idx = 0 THEN T(19, 0)
                                    ELSE IF idx = 1 THEN T(21, 30) ELSE T(19, 0)
                     shift_end == IF idx = 0 \/ idx = 1 THEN plus_10h30(shift_start)
                                  ELSE T(7, 0)
                 IN IF p.remaining_night = 0 \/ InSeq(p.today, e.id)
                    THEN p
                    ELSE [st |-> Put(p.st, e.id,
                                   [es EXCEPT !.hours_assigned = @ + shift_len,
                                              !.last_shift_end = << combine(cur, shift_end) >>,
                                              !.days_worked = @ + 1]),
                          asg |-> Append(p.asg,
                                   [employee_id |-> e.id, schedule_date |-> cur,
                                    shift_start |-> shift_start, shift_end |-> shift_end,
                                    shift_type |-> "NIGHT", role |-> NRoles[idx + 1],
                                    is_overtime |-> es.hours_assigned + shift_len > es.max_hours,
                                    is_coverage |-> TRUE]),
                          today |-> Append(p.today, e.id),
                          na |-> Append(p.na, e.id),
                          remaining_night |-> p.remaining_night - 1]
        r == L[Len(pool)]
    IN [st |-> r.st, asg |-> r.asg, today |-> r.today, da |-> p0.da]

\* lines 515-705: one pass of the loop over the dates: the pools of the date, the
\* lead shift, the day shifts and the night shifts, then the next date.  The pass
\* reads and writes the locals of the call only
AppDay ==
    /\ app_pc = "loop"
    /\ \E p \in {app_pools(employees_sorted, state, current_date)} :
          IF p.raised
          THEN /\ app_pc' = "error"
               /\ UNCHANGED << state, app_assignments, day_idx, day_pool_sorted,
                               night_pool_sorted, assigned_today, day_assigned >>
          ELSE \E day_pool \in p.day_pool_sorted, night_pool \in p.night_pool_sorted :
               \E lead \in {app_lead_shift([st |-> p.st, asg |-> app_assignments,
                                            today |-> << >>, da |-> << >>],
                                           day_pool, current_date)} :
               \E day \in {app_day_shifts(lead, day_pool, current_date)} :
               \E night \in {app_night_shifts(day, night_pool, current_date)} :
                  /\ state' = night.st
                  /\ app_assignments' = night.asg
                  /\ day_pool_sorted' = day_pool
                  /\ night_pool_sorted' = night_pool
                  /\ assigned_today' = night.today
                  /\ day_assigned' = night.da
                  /\ day_idx' = day_idx + 1
                  /\ app_pc' = IF day_idx + 1 < app_days THEN "loop" ELSE "save"
    /\ UNCHANGED << app_employees, app_start_dt, app_days,
                    app_schedules, app_responses, app_pending, app_entered, app_returned,
                    employees_sorted, timeoff_requests, refVars, engVars, fixVars, tradeVars >>

\* line 388: generate_schedule returns its rows, or the exception of line 528 leaves
\* it; the request stands before line 389 (app_returned)
AppReturn ==
    /\ app_pc \in {"save", "error"}
    /\ app_returned' = Append(app_returned,
          [start_dt |-> app_start_dt, total_days |-> app_days,
           employees |-> employees_sorted,
           rows |-> app_assignments, raised |-> (app_pc = "error")])
    /\ app_pc' = IF app_pc = "save" THEN "done" ELSE "failed"
    /\ UNCHANGED << app_employees, app_schedules, timeoff_requests, appLocals,
                    app_responses, app_pending, app_entered,
                    refVars, engVars, fixVars, tradeVars >>

\* lines 389-392: the rows of a call that has returned are inserted after the rows
\* the table holds by now and committed; 200 response
AppSave ==
    /\ \E k \in 1..Len(app_returned) :
          LET returned == app_returned[k].rows
              base == NextId(app_schedules)
              rows == [i \in 1..Len(returned) |->
                          [id |-> base + i - 1,
                           employee_id |-> returned[i].employee_id,
                           schedule_date |-> returned[i].schedule_date,
                           shift_start |-> returned[i].shift_start,
                           shift_end |-> returned[i].shift_end,
                           shift_type |-> returned[i].shift_type,
                           role |-> returned[i].role,
                           is_overtime |-> returned[i].is_overtime,
                           is_coverage |-> returned[i].is_coverage]]
          IN /\ ~app_returned[k].raised
             /\ app_schedules' = app_schedules \o rows
             /\ app_responses' = Append(app_responses,
                   [start_date |-> app_returned[k].start_dt,
                    weeks |-> app_returned[k].total_days \div 7, success |-> TRUE,
                    generated_shifts |-> Len(rows),
                    published |-> RowView(app_schedules \o rows),
                    generated |-> RowView(rows), code |-> 200,
                    read |-> app_returned[k].employees])
             /\ app_returned' = RemoveAt(app_returned, k)
    /\ UNCHANGED << app_employees, timeoff_requests, appLocals, app_pc, app_pending,
                    app_entered, refVars, engVars, fixVars, tradeVars >>

\* a JSON value where the code expects a text: << "text", s >> is the text s,
\* << "null", "" >> null; None.upper() of line 421 raises AttributeError
upper_raises(v) == v[1] # "text"

\* a date field of a body: << "date", x >> is the text of the date x, << "invalid", 0 >>
\* a text that does not parse, << "empty", 0 >> the empty text.  data.get() reads a
\* null as it reads an absent field
not_date(data, key) == key \notin DOMAIN data \/ data[key][1] = "empty"

\* lines 414-432: POST /api/timeoff up to the insert.  Line 421 raises for a
\* shift_type that is null, before any field is tested: 500.  A missing, null, empty
\* or zero field is answered 400, a date that does not parse 400, an unknown or
\* inactive employee 404; otherwise lines 433-444 store a PENDING row: 201
timeoff_requests_post(employees, data) ==
    IF upper_raises(Field(data, "shift_type", << "text", "BOTH" >>)) THEN 500
    ELSE IF Field(data, "employee_id", 0) = 0 \/ not_date(data, "start_date")
            \/ not_date(data, "end_date")
    THEN 400
    ELSE IF data.start_date[1] = "invalid" \/ data.end_date[1] = "invalid" THEN 400
    ELSE IF employee_get(employees, data.employee_id) = 0 THEN 404
    ELSE IF ~employees[employee_get(employees, data.employee_id)].active THEN 404
    ELSE 201

\* TimeOffRequest.query.get(request_id): the index of the row, 0 when there is none
timeoff_get(rows, request_id) ==
    IF \E i \in 1..Len(rows) : rows[i].id = request_id
    THEN CHOOSE i \in 1..Len(rows) : rows[i].id = request_id
    ELSE 0

\* lines 447-453 and 460-466, on the row as it is read: 404 for an unknown id, 400
\* for a request that is not PENDING; otherwise lines 454-456 / 467-469 set the
\* status and commit: 200
app_decide_timeoff(rows, request_id) ==
    LET i == timeoff_get(rows, request_id)
    IN IF i = 0 THEN 404
       ELSE IF rows[i].status # "PENDING" THEN 400
       ELSE 200

\* str.upper() of the shift_type texts the bodies hold
upper(v) ==
    CASE v[2] = "day" -> "DAY"
      [] v[2] = "night" -> "NIGHT"
      [] v[2] = "both" -> "BOTH"
      [] OTHER -> v[2]

\* lines 421 and 434-441: the request object of a body that has passed the tests,
\* with the shift_type in upper case, BOTH when the body has none
new_timeoff_request(data) ==
    [employee_id |-> data.employee_id,
     start_date |-> data.start_date[2], end_date |-> data.end_date[2],
     shift_type |-> upper(Field(data, "shift_type", << "text", "BOTH" >>)),
     status |-> "PENDING"]

\* lines 442-443: the request is inserted under the next id and committed
insert_timeoff_request(rows, req) ==
    Append(rows, [id |-> NextId(rows), employee_id |-> req.employee_id,
                  start_date |-> req.start_date, end_date |-> req.end_date,
                  shift_type |-> req.shift_type, status |-> req.status])

\* two bodies of POST /api/timeoff: the lead (the first employee) for the first two
\* start dates, and the fourth employee for the first start date, Day shifts only
AppLeaveBodies ==
    { [employee_id |-> 1, start_date |-> << "date", AppStartDay >>,
       end_date |-> << "date", AppStartDay + 1 >>],
      [employee_id |-> 4, start_date |-> << "date", AppStartDay >>,
       end_date |-> << "date", AppStartDay >>, shift_type |-> << "text", "day" >>] }

\* the bodies of POST /api/timeoff: the two above, for an employee that does not
\* exist, without the employee, with a date that does not parse, with the
\* employee 0 and with a null shift_type
AppTimeOffBodies ==
    AppLeaveBodies \cup {
      [employee_id |-> AppRoster + 2, start_date |-> << "date", AppStartDay >>,
       end_date |-> << "date", AppStartDay + 1 >>],
      [start_date |-> << "date", AppStartDay >>, end_date |-> << "date", AppStartDay + 1 >>],
      [employee_id |-> 1, start_date |-> << "invalid", 0 >>,
       end_date |-> << "date", AppStartDay + 1 >>],
      [employee_id |-> 0, start_date |-> << "date", AppStartDay >>,
       end_date |-> << "date", AppStartDay + 1 >>],
      [employee_id |-> 1, start_date |-> << "date", AppStartDay >>,
       end_date |-> << "date", AppStartDay + 1 >>, shift_type |-> << "null", "" >>] }

\* the timeoff_requests table after POST /api/timeoff has stored one request and
\* PUT /api/timeoff/1/approve has approved it, for each of the two bodies (the
\* time-off endpoints reach both tables from the empty one)
AppLeaveTables ==
    { commit_changes(insert_timeoff_request(<< >>, new_timeoff_request(data)),
                     1, [status |-> "APPROVED"]) : data \in AppLeaveBodies }

\* the server of app.py with the first AppRoster employees, all active, on which
\* the time-off endpoints have stored one approved request, before the first
\* generation request
LeaveStart == AppServer({SubSeq(AppStaff, 1, AppRoster)}, AppLeaveTables)

\* what the time-off endpoints of app.py leave alone
AppTimeOffFrame ==
    UNCHANGED << app_employees, app_schedules, appLocals, app_pc, app_responses, app_pending,
                 app_entered, app_returned,
                 shift_trades, trade_response, today, refVars, engVars, fixVars >>

\* lines 404-432: POST /api/timeoff, served at any time, up to the insert: an error is
\* answered at once, otherwise the handler stands before line 433
AppTimeoffPost ==
    /\ app_pc # "off"
    /\ Len(api_responses) + Len(api_held) < AppTimeOffs
    /\ \E data \in AppTimeOffBodies :
          LET code == timeoff_requests_post(app_employees, data)
          IN IF code # 201
             THEN /\ api_responses' = Append(api_responses,
                        [op |-> "timeoff", id |-> 0, code |-> code])
                  /\ UNCHANGED api_held
             ELSE /\ api_held' = Append(api_held,
                        [op |-> "timeoff", id |-> 0,
                         changes |-> new_timeoff_request(data)])
                  /\ UNCHANGED api_responses
    /\ UNCHANGED timeoff_requests
    /\ AppTimeOffFrame

\* lines 433-444: the PENDING row is inserted and committed; 201
AppTimeoffInsert ==
    /\ app_pc # "off"
    /\ \E k \in 1..Len(api_held) :
          /\ api_held[k].op = "timeoff"
          /\ timeoff_requests' = insert_timeoff_request(timeoff_requests,
                                                        api_held[k].changes)
          /\ api_responses' = Append(api_responses,
                [op |-> "timeoff", id |-> 0, code |-> 201])
          /\ api_held' = RemoveAt(api_held, k)
    /\ AppTimeOffFrame

\* lines 447-453: PUT /api/timeoff/<request_id>/approve up to the write: 404 and 400
\* are answered at once, otherwise the handler stands before line 454
AppApproveTimeoff ==
    /\ app_pc # "off"
    /\ Len(api_responses) + Len(api_held) < AppTimeOffs
    /\ \E request_id \in 1..(Len(timeoff_requests) + 1) :
          LET code == app_decide_timeoff(timeoff_requests, request_id)
          IN IF code # 200
             THEN /\ api_responses' = Append(api_responses,
                        [op |-> "approve", id |-> request_id, code |-> code])
                  /\ UNCHANGED api_held
             ELSE /\ api_held' = Append(api_held,
                        [op |-> "approve", id |-> request_id,
                         changes |-> [status |-> "APPROVED"]])
                  /\ UNCHANGED api_responses
    /\ UNCHANGED timeoff_requests
    /\ AppTimeOffFrame

\* lines 454-457: the status is set and committed, whatever it is by now; 200
AppApproveCommit ==
    /\ app_pc # "off"
    /\ \E k \in 1..Len(api_held) :
          /\ api_held[k].op = "approve"
          /\ timeoff_requests' = commit_changes(timeoff_requests, api_held[k].id,
                                                api_held[k].changes)
          /\ api_responses' = Append(api_responses,
                [op |-> "approve", id |-> api_held[k].id, code |-> 200])
          /\ api_held' = RemoveAt(api_held, k)
    /\ AppTimeOffFrame

\* lines 460-466: PUT /api/timeoff/<request_id>/deny up to the write
AppDenyTimeoff ==
    /\ app_pc # "off"
    /\ Len(api_responses) + Len(api_held) < AppTimeOffs
    /\ \E request_id \in 1..(Len(timeoff_requests) + 1) :
          LET code == app_decide_timeoff(timeoff_requests, request_id)
          IN IF code # 200
             THEN /\ api_responses' = Append(api_responses,
                        [op |-> "deny", id |-> request_id, code |-> code])
                  /\ UNCHANGED api_held
             ELSE /\ api_held' = Append(api_held,
                        [op |-> "deny", id |-> request_id,
                         changes |-> [status |-> "DENIED"]])
                  /\ UNCHANGED api_responses
    /\ UNCHANGED timeoff_requests
    /\ AppTimeOffFrame

\* lines 467-470: the status is set and committed, whatever it is by now; 200
AppDenyCommit ==
    /\ app_pc # "off"
    /\ \E k \in 1..Len(api_held) :
          /\ api_held[k].op = "deny"
          /\ timeoff_requests' = commit_changes(timeoff_requests, api_held[k].id,
                                                api_held[k].changes)
          /\ api_responses' = Append(api_responses,
                [op |-> "deny", id |-> api_held[k].id, code |-> 200])
          /\ api_held' = RemoveAt(api_held, k)
    /\ AppTimeOffFrame

\* the exception of generate_schedule leaves the endpoint: 500, and the delete of
\* line 385 stays committed
AppFail ==
    /\ \E k \in 1..Len(app_returned) :
          /\ app_returned[k].raised
          /\ app_responses' = Append(app_responses,
                [start_date |-> app_returned[k].start_dt,
                 weeks |-> app_returned[k].total_days \div 7, success |-> FALSE,
                 generated_shifts |-> 0, published |-> RowView(app_schedules),
                 generated |-> {}, code |-> 500,
                 read |-> app_returned[k].employees])
          /\ app_returned' = RemoveAt(app_returned, k)
    /\ UNCHANGED << app_employees, app_schedules, timeoff_requests, appLocals, app_pc,
                    app_pending, app_entered,
                    refVars, engVars, fixVars, tradeVars >>

AppNext ==
    \/ AppAddEmployee \/ AppUpdateEmployee \/ AppUpdateCommit
    \/ AppDeactivate \/ AppDeactivateCommit
    \/ AppRequest \/ AppEntry \/ AppBegin \/ AppDay
    \/ AppReturn \/ AppSave \/ AppFail

----------------------------------------------------------------------------
(* app_fixed.py : SchedulingEngine and /api/schedule/generate              *)

fix_day_shifts_weekday ==
    << << "D1", T(7, 0), T(19, 0), Hrs(12) >>,
       << "D2", T(7, 0), T(19, 0), Hrs(12) >>,
       << "D3", T(7, 0), T(19, 0), Hrs(12) >>,
       << "PATTY", T(8, 0), T(16, 0), Hrs(8) >>,
       << "EARLY1", T(7, 0), T(8, 0), Hrs(1) >>,
       << "LATE3", T(16, 0), T(19, 0), Hrs(3) >> >>

fix_day_shifts_weekend ==
    << << "D1", T(7, 0), T(19, 0), Hrs(12) >>,
       << "D2", T(7, 0), T(19, 0), Hrs(12) >>,
       << "D3", T(7, 0), T(19, 0), Hrs(12) >>,
       << "D4", T(7, 0), T(19, 0), Hrs(12) >> >>

fix_night_shifts ==
    << << "N1", T(19, 0), T(5, 30), 21 >>,
       << "N2", T(21, 30), T(8, 0), 21 >>,
       << "N3", T(19, 0), T(7, 0), Hrs(12) >> >>

\* rows of the employees table, as POST /api/employees stores them
FixStaff ==
    << [id |-> 1, name |-> "Nicole Dempster", email |-> "nicole", is_lead |-> FALSE,
        nights_only |-> TRUE, max_hours_per_week |-> 30, cannot_work_days |-> {},
        active |-> TRUE, max_consecutive_days |-> 5, min_rest_hours |-> 10,
        shift_preference |-> "NIGHT"],
       [id |-> 2, name |-> "Patty Golden", email |-> "patty", is_lead |-> TRUE,
        nights_only |-> FALSE, max_hours_per_week |-> 60, cannot_work_days |-> {},
        active |-> TRUE, max_consecutive_days |-> 5, min_rest_hours |-> 10,
        shift_preference |-> "DAY"],
       [id |-> 3, name |-> "Mayra Bradley", email |-> "mayra", is_lead |-> FALSE,
        nights_only |-> FALSE, max_hours_per_week |-> 40, cannot_work_days |-> {"Fri"},
        active |-> TRUE, max_consecutive_days |-> 5, min_rest_hours |-> 10,
        shift_preference |-> "BOTH"],
       [id |-> 4, name |-> "Vicki Theler", email |-> "vicki", is_lead |-> FALSE,
        nights_only |-> FALSE, max_hours_per_week |-> 20, cannot_work_days |-> {},
        active |-> TRUE, max_consecutive_days |-> 5, min_rest_hours |-> 10,
        shift_preference |-> "BOTH"],
       [id |-> 5, name |-> "Lisa Dixon", email |-> "lisa", is_lead |-> FALSE,
        nights_only |-> FALSE, max_hours_per_week |-> 40, cannot_work_days |-> {},
        active |-> TRUE, max_consecutive_days |-> 5, min_rest_hours |-> 10,
        shift_preference |-> "BOTH"] >>

\* rows of the time_off_requests table, dated relative to the first start date,
\* with the status each has while it is not approved
FixFirstStart == CHOOSE x \in FixStartDates : \A y \in FixStartDates : x <= y
FixTimeOffRows ==
    << [id |-> 1, employee_id |-> 3, start_date |-> FixFirstStart,
        end_date |-> FixFirstStart + 1, shift_type |-> "DAY", status |-> "PENDING"],
       [id |-> 2, employee_id |-> 1, start_date |-> FixFirstStart - 1,
        end_date |-> FixFirstStart + 7, shift_type |-> "BOTH", status |-> "DENIED"],
       [id |-> 3, employee_id |-> 2, start_date |-> FixFirstStart + 1,
        end_date |-> FixFirstStart + 2, shift_type |-> "NIGHT", status |-> "PENDING"],
       [id |-> 4, employee_id |-> 4, start_date |-> FixFirstStart,
        end_date |-> FixFirstStart + 6, shift_type |-> "BOTH", status |-> "DENIED"],
       [id |-> 5, employee_id |-> 3, start_date |-> FixFirstStart + 3,
        end_date |-> FixFirstStart + 3, shift_type |-> "NIGHT", status |-> "PENDING"] >>

calculate_shift_hours(start_time, end_time) ==
    IF end_time <= start_time THEN end_time + DayHalfHours - start_time
    ELSE end_time - start_time

\* _get_weekly_hours: the hours of the employee's published rows in the Monday week of the date
get_weekly_hours(employee_id, date) ==
    LET wk_start == date - weekday(date)
        wk_end == wk_start + 6
        rows == SelectSeqIdx(schedules, LAMBDA r : r.employee_id = employee_id
                                                   /\ r.schedule_date >= wk_start
                                                   /\ r.schedule_date <= wk_end)
    IN SumSeq([i \in 1..Len(rows) |-> calculate_shift_hours(rows[i].shift_start, rows[i].shift_end)])

can_work_day_shift(employee) == ~employee.nights_only
can_work_night_shift(employee) == TRUE

\* lines 199-204: the approved requests that overlap the range
\* the requests that overlap the range whatever their status (sensitivity variant for C19)
fix_time_offs_any_status(start, days) ==
    SelectSeqIdx(time_off_requests, LAMBDA r : r.start_date <= start + (days - 1)
                                               /\ r.end_date >= start)

fix_time_offs(start, days) ==
    SelectSeqIdx(time_off_requests, LAMBDA r : r.status = "APPROVED"
                                               /\ r.start_date <= start + (days - 1)
                                               /\ r.end_date >= start)

\* lines 207-217: pto_lookup[date][shift_type], as the set of employee ids it lists
pto_lookup(time_offs, date, shift_type) ==
    { time_offs[i].employee_id : i \in
        { j \in 1..Len(time_offs) :
            /\ time_offs[j].shift_type = shift_type
            /\ time_offs[j].start_date <= date
            /\ date <= time_offs[j].end_date } }

Take(s, n) == SubSeq(s, 1, IF n < Len(s) THEN n ELSE Len(s))

\* lines 228-251: the two candidate pools of a date, with the coverage-gap fallback
fix_pools(employees, time_offs, date) ==
    LET min_day_coverage == 4
        min_night_coverage == 3
        day_pto == pto_lookup(time_offs, date, "DAY") \cup pto_lookup(time_offs, date, "BOTH")
        night_pto == pto_lookup(time_offs, date, "NIGHT") \cup pto_lookup(time_offs, date, "BOTH")
        day0 == SelectSeqIdx(employees, LAMBDA e : e.id \notin day_pto /\ can_work_day_shift(e))
        night0 == SelectSeqIdx(employees, LAMBDA e : e.id \notin night_pto /\ can_work_night_shift(e))
        day_extra == SelectSeqIdx(employees, LAMBDA e : e.id \notin day_pto /\ ~InSeq(day0, e))
        night_extra == SelectSeqIdx(employees, LAMBDA e : e.id \notin night_pto /\ ~InSeq(night0, e))
    IN [day |-> IF Len(day0) < min_day_coverage
                THEN day0 \o Take(day_extra, min_day_coverage - Len(day0)) ELSE day0,
        night |-> IF Len(night0) < min_night_coverage
                  THEN night0 \o Take(night_extra, min_night_coverage - Len(night0)) ELSE night0]

\* _assign_shifts_with_fair_distribution: line 293 reads available_day_employees /
\* available_night_employees, which are not defined in the method, so the first
\* iteration with i < len(available_employees) raises NameError
assign_shifts_with_fair_distribution(shifts, available_employees, date, shift_type) ==
    LET sorted == StableSort(available_employees, LAMBDA e : << get_weekly_hours(e.id, date) >>)
    IN IF Len(shifts) > 0 /\ 0 < Len(sorted)
       THEN [raised |-> TRUE, assignments |-> << >>, available |-> sorted]
       ELSE [raised |-> FALSE, assignments |-> << >>, available |-> sorted]

fix_active == SelectSeqIdx(fix_employees, LAMBDA e : e.active)
fix_days == fix_weeks * 7
fix_date == fix_start_date + day_offset

\* lines 593-599: Schedule.query.filter(date in [start, end]).delete()
delete_range(rows, start, end) ==
    SelectSeqIdx(rows, LAMBDA r : ~(r.schedule_date >= start /\ r.schedule_date <= end))

\* a JSON value that is no list where the code expects one: a text (null is NullJson)
TextJson == {"text"}

\* isinstance(cannot_work_days, list) of lines 466 and 530
is_list(v) == v \notin {NullJson, TextJson}

\* lines 454-496: POST /api/employees; a body without name or email (KeyError) and an
\* email another row has (the column is unique) end in the except branch: 400.  A
\* cannot_work_days that is no list is stored as '[]' (466-469)
api_employees_post(rows, data) ==
    IF "name" \notin DOMAIN data \/ "email" \notin DOMAIN data
    THEN [rows |-> rows, code |-> 400]
    ELSE IF \E n \in 1..Len(rows) : rows[n].email = data.email
    THEN [rows |-> rows, code |-> 400]
    ELSE LET shift_type == Field(data, "shift_type", "BOTH")
             cannot_work_days == Field(data, "cannot_work_days", {})
         IN [rows |-> Append(rows,
                        [id |-> NextId(rows), name |-> data.name, email |-> data.email,
                         is_lead |-> (Field(data, "special_schedule", "") = "LEAD"),
                         nights_only |-> (shift_type = "NIGHT"),
                         max_hours_per_week |-> Field(data, "hours_per_week", 40),
                         cannot_work_days |-> IF is_list(cannot_work_days)
                                              THEN cannot_work_days ELSE {},
                         active |-> TRUE,
                         max_consecutive_days |-> Field(data, "max_consecutive_days", 5),
                         min_rest_hours |-> Field(data, "min_rest_hours", 10),
                         shift_preference |-> shift_type]),
             code |-> 201]

\* lines 498-551: PUT and DELETE /api/employees/<employee_id> on the row as it is
\* read at line 501; get_or_404 stands before the try block, so an unknown id is
\* answered 404.  PUT assigns the supplied fields to the row, active or not (a
\* cannot_work_days that is no list is left out, line 530); DELETE clears the active
\* flag.  The commit writes the columns whose value has changed (changes).
fix_update_employee(rows, employee_id, method, data) ==
    LET n == employee_get(rows, employee_id)
        e == rows[n]
        put == [e EXCEPT
                  !.name = Field(data, "name", @),
                  !.email = Field(data, "email", @),
                  !.nights_only = IF "shift_type" \in DOMAIN data
                                  THEN data.shift_type = "NIGHT" ELSE @,
                  !.shift_preference = Field(data, "shift_type", @),
                  !.is_lead = IF "special_schedule" \in DOMAIN data
                              THEN data.special_schedule = "LEAD" ELSE @,
                  !.max_hours_per_week = Field(data, "hours_per_week", @),
                  !.max_consecutive_days = Field(data, "max_consecutive_days", @),
                  !.min_rest_hours = Field(data, "min_rest_hours", @),
                  !.active = Field(data, "active", @),
                  !.cannot_work_days = IF "cannot_work_days" \in DOMAIN data
                                          /\ is_list(data.cannot_work_days)
                                       THEN data.cannot_work_days ELSE @]
        after == IF method = "DELETE" THEN [e EXCEPT !.active = FALSE] ELSE put
    IN IF n = 0 THEN [code |-> 404, changes |-> EmptyDict]
       ELSE [code |-> 200,
             changes |-> [f \in { g \in DOMAIN e : after[g] # e[g] } |-> after[f]]]

\* lines 533 and 545: the commit of a PUT or DELETE.  A changed email that another
\* row has by now violates the unique column: rollback, 400 and the row as it is;
\* otherwise the changes are written: 200
fix_commit_employee(rows, employee_id, changes) ==
    IF "email" \in DOMAIN changes
       /\ \E m \in 1..Len(rows) : rows[m].id # employee_id /\ rows[m].email = changes.email
    THEN [rows |-> rows, code |-> 400]
    ELSE [rows |-> commit_changes(rows, employee_id, changes), code |-> 200]

\* lines 650-664: POST /api/timeoff up to its commit; a missing field or a date that
\* does not parse raises before the row is added (400); otherwise the row is added
\* and committed at line 664 without a look at the employees table
api_timeoff_post(rows, data) ==
    IF "employee_id" \notin DOMAIN data \/ "start_date" \notin DOMAIN data
       \/ "end_date" \notin DOMAIN data
    THEN [rows |-> rows, code |-> 400]
    ELSE IF data.start_date[1] # "date" \/ data.end_date[1] # "date"
    THEN [rows |-> rows, code |-> 400]
    ELSE [rows |-> Append(rows,
                     [id |-> NextId(rows), employee_id |-> data.employee_id,
                      start_date |-> data.start_date[2], end_date |-> data.end_date[2],
                      shift_type |-> Field(data, "shift_type", "BOTH"),
                      status |-> "PENDING"]),
          code |-> 201]

\* lines 677-683 and 694-699: approve_timeoff and deny_timeoff on the row as it is
\* read; get_or_404 raises inside the try block, so an unknown id ends in the except
\* branch (500); otherwise the status is set whatever it was, and the commit writes
\* it when it has changed
fix_decide_timeoff(rows, request_id, status) ==
    LET i == timeoff_get(rows, request_id)
    IN IF i = 0 THEN [code |-> 500, changes |-> EmptyDict]
       ELSE [code |-> 200,
             changes |-> IF rows[i].status # status THEN [status |-> status]
                         ELSE EmptyDict]

\* lines 666, 686 and 702: req.employee, loaded after the commit from the tables as
\* they are by then: << >> is None (the read of its name raises), << e >> the row e
req_employee(rows, employees, request_id) ==
    LET i == timeoff_get(rows, request_id)
    IN SelectSeqIdx(employees, LAMBDA e : e.id = rows[i].employee_id)

\* the employees table: the first FixRoster rows, each active or not
FixRosters ==
    { [i \in 1..FixRoster |-> [FixStaff[i] EXCEPT !.active = (i \in S)]] :
        S \in SUBSET (1..FixRoster) }

\* the time_off_requests table: the first FixTimeOffs rows, each approved or not
FixTimeOffTables ==
    { [i \in 1..FixTimeOffs |-> [FixTimeOffRows[i] EXCEPT !.status =
                                    IF i \in S THEN "APPROVED"
                                    ELSE FixTimeOffRows[i].status]] :
        S \in SUBSET (1..FixTimeOffs) }

\* the request bodies of the employee and time-off endpoints
FixAddBodies ==
    LET e == FixStaff[FixRoster + 1]
    IN { [name |-> e.name, email |-> e.email, shift_type |-> e.shift_preference,
          hours_per_week |-> e.max_hours_per_week],
         [email |-> e.email],
         [name |-> e.name, email |-> FixStaff[1].email],
         [name |-> e.name, email |-> e.email, shift_type |-> e.shift_preference,
          hours_per_week |-> e.max_hours_per_week, cannot_work_days |-> TextJson] }
FixUpdateBodies ==
    { [shift_type |-> "NIGHT"], [active |-> TRUE], [cannot_work_days |-> NullJson],
      [email |-> FixStaff[1].email] }
FixTimeOffBodies ==
    { [employee_id |-> FixStaff[1].id, start_date |-> << "date", FixFirstStart >>,
       end_date |-> << "date", FixFirstStart >>, shift_type |-> "DAY"],
      [employee_id |-> FixRoster + 2, start_date |-> << "date", FixFirstStart >>,
       end_date |-> << "date", FixFirstStart >>],
      [start_date |-> << "date", FixFirstStart >>, end_date |-> << "date", FixFirstStart >>],
      [employee_id |-> FixStaff[1].id, start_date |-> << "invalid", 0 >>,
       end_date |-> << "date", FixFirstStart >>] }

\* the JSON fields of POST /api/schedule/generate: a field is absent, a text that
\* does not parse, or a value
FixDateInputs == { << "date", x >> : x \in FixStartDates } \cup { << "absent", 0 >>, << "invalid", 0 >> }
FixWeeksInputs == { << "int", w >> : w \in (0 - 1)..FixWeeks } \cup { << "absent", 0 >>, << "text", 0 >> }

\* what was read at lines 196-204 before any request entered the engine
NoRead == [employees |-> << >>, time_offs |-> << >>]

FixIdle ==
    /\ fix_employees = << >>
    /\ time_off_requests = << >>
    /\ schedules = << >>
    /\ fix_pc = "off"
    /\ fix_start_date = 0
    /\ fix_weeks = 0
    /\ day_offset = 0
    /\ new_assignments = << >>
    /\ available_day_employees = << >>
    /\ available_night_employees = << >>
    /\ responses = << >>
    /\ fix_read = NoRead
    /\ fix_pending = << >>
    /\ fix_entered = << >>
    /\ fix_returned = << >>

\* the server of app_fixed.py before the first generation request: employees and
\* time-off requests stored by its endpoints, and no schedule row
FixStart ==
    /\ fix_employees \in FixRosters
    /\ time_off_requests \in FixTimeOffTables
    /\ schedules = << >>
    /\ fix_pc = "idle"
    /\ fix_start_date = 0
    /\ fix_weeks = 0
    /\ day_offset = 0
    /\ new_assignments = << >>
    /\ available_day_employees = << >>
    /\ available_night_employees = << >>
    /\ responses = << >>
    /\ fix_read = NoRead
    /\ fix_pending = << >>
    /\ fix_entered = << >>
    /\ fix_returned = << >>

\* the local variables of the running engine call
fixLocals == << fix_start_date, fix_weeks, day_offset, new_assignments,
                available_day_employees, available_night_employees, fix_read >>

\* the generation requests received so far: answered, returned from the engine,
\* computing, or past the commit of line 599
FixInFlight ==
    Len(responses) + Len(fix_pending) + Len(fix_entered) + Len(fix_returned)
      + (IF fix_pc \in {"pools", "assign_day", "assign_night", "save", "error"} THEN 1 ELSE 0)

\* lines 585-599: POST /api/schedule/generate up to the commit of the delete, served
\* at any time.  A body without start_date (KeyError), a start_date that does not
\* parse (ValueError) and a weeks that is no number (TypeError at line 594) end in
\* the except branch before anything is deleted: rollback, 500.  A body without
\* weeks asks for 4 weeks (line 588).  After the commit the request stands before
\* line 603 (fix_pending).
FixRequest ==
    /\ fix_pc # "off"
    /\ FixInFlight < FixRequests
    /\ \E S \in FixDateInputs, W \in FixWeeksInputs :
          LET weeks == IF W[1] = "absent" THEN 4 ELSE W[2]
              start == S[2]
          IN IF S[1] # "date" \/ W[1] = "text"
             THEN /\ responses' = Append(responses,
                        [start_date |-> 0, weeks |-> 0, success |-> FALSE,
                         generated_shifts |-> 0, published |-> RowView(schedules),
                         generated |-> {},
                         code |-> 500])
                  /\ UNCHANGED << schedules, fix_pending >>
             ELSE /\ schedules' = delete_range(schedules, start, start + (weeks * 7 - 1))
                  /\ fix_pending' = Append(fix_pending,
                        [start_date |-> start, weeks |-> weeks])
                  /\ responses' = responses
    /\ UNCHANGED << fix_employees, time_off_requests, fix_pc, fixLocals,
                    fix_entered, fix_returned,
                    refVars, engVars, appVars, tradeVars >>

\* lines 603-604 and 196: a request that has committed its delete enters the engine,
\* which reads the active employees; taken at any time
FixEntry ==
    /\ \E k \in 1..Len(fix_pending) :
          /\ fix_entered' = Append(fix_entered,
                [start_date |-> fix_pending[k].start_date, weeks |-> fix_pending[k].weeks,
                 read |-> [employees |-> fix_active, time_offs |-> << >>],
                 read_all |-> FALSE])
          /\ fix_pending' = RemoveAt(fix_pending, k)
    /\ UNCHANGED << fix_employees, time_off_requests, schedules, fix_pc, fixLocals,
                    responses, fix_returned, refVars, engVars, appVars, tradeVars >>

\* lines 199-204: the call reads the approved requests of its range; taken at any time
FixReadTimeOffs ==
    /\ \E k \in 1..Len(fix_entered) :
          /\ ~fix_entered[k].read_all
          /\ fix_entered' = [fix_entered EXCEPT
                ![k].read.time_offs = fix_time_offs(fix_entered[k].start_date,
                                                    fix_entered[k].weeks * 7),
                ![k].read_all = TRUE]
    /\ UNCHANGED << fix_employees, time_off_requests, schedules, fix_pc, fixLocals,
                    responses, fix_pending, fix_returned,
                    refVars, engVars, appVars, tradeVars >>

\* lines 206-219: the call starts on what it has read.  From here to its return it
\* works on the rows it read and on its own locals, and reads the schedules table
\* (get_weekly_hours), which holds no row; the model computes one call at a time: a
\* call that has read its rows waits here while another one computes.  Every read
\* and write of the tables is taken at any time.
FixBegin ==
    /\ fix_pc = "idle"
    /\ \E k \in 1..Len(fix_entered) :
          /\ fix_entered[k].read_all
          /\ fix_start_date' = fix_entered[k].start_date
          /\ fix_weeks' = fix_entered[k].weeks
          /\ fix_read' = fix_entered[k].read
          /\ fix_pc' = IF fix_entered[k].weeks * 7 > 0 THEN "pools" ELSE "save"
          /\ fix_entered' = RemoveAt(fix_entered, k)
    /\ day_offset' = 0
    /\ new_assignments' = << >>
    /\ available_day_employees' = << >>
    /\ available_night_employees' = << >>
    /\ UNCHANGED << fix_employees, time_off_requests, schedules, responses, fix_pending,
                    fix_returned, refVars, engVars, appVars, tradeVars >>

\* lines 221-251: the pools of the current date
FixPools ==
    /\ fix_pc = "pools"
    /\ LET pools == fix_pools(fix_read.employees, fix_read.time_offs, fix_date)
       IN /\ available_day_employees' = pools.day
          /\ available_night_employees' = pools.night
    /\ fix_pc' = "assign_day"
    /\ UNCHANGED << fix_employees, time_off_requests, schedules, fix_start_date, fix_weeks,
                    day_offset, new_assignments, responses, fix_read, fix_pending,
                    fix_entered, fix_returned,
                    refVars, engVars, appVars, tradeVars >>

\* lines 253-256: the day shifts of the date
FixAssignDay ==
    /\ fix_pc = "assign_day"
    /\ LET is_weekend == weekday(fix_date) >= 5
           day_shifts == IF is_weekend THEN fix_day_shifts_weekend ELSE fix_day_shifts_weekday
           r == assign_shifts_with_fair_distribution(day_shifts, available_day_employees,
                                                     fix_date, "DAY")
       IN /\ available_day_employees' = r.available
          /\ new_assignments' = new_assignments \o r.assignments
          /\ fix_pc' = IF r.raised THEN "error" ELSE "assign_night"
    /\ UNCHANGED << fix_employees, time_off_requests, schedules, fix_start_date, fix_weeks,
                    day_offset, available_night_employees, responses, fix_read, fix_pending,
                    fix_entered, fix_returned,
                    refVars, engVars, appVars, tradeVars >>

\* lines 258-263: the night shifts of the date, then the next date
FixAssignNight ==
    /\ fix_pc = "assign_night"
    /\ LET r == assign_shifts_with_fair_distribution(fix_night_shifts, available_night_employees,
                                                     fix_date, "NIGHT")
       IN /\ available_night_employees' = r.available
          /\ new_assignments' = new_assignments \o r.assignments
          /\ IF r.raised
             THEN fix_pc' = "error" /\ day_offset' = day_offset
             ELSE /\ day_offset' = day_offset + 1
                  /\ fix_pc' = IF day_offset + 1 < fix_days THEN "pools" ELSE "save"
    /\ UNCHANGED << fix_employees, time_off_requests, schedules, fix_start_date, fix_weeks,
                    available_day_employees, responses, fix_read, fix_pending,
                    fix_entered, fix_returned,
                    refVars, engVars, appVars, tradeVars >>

\* lines 264-270 and 604: the engine returns its assignments, or the exception
\* leaves it; the request stands before line 606 (fix_returned)
FixReturn ==
    /\ fix_pc \in {"save", "error"}
    /\ fix_returned' = Append(fix_returned,
          [start_date |-> fix_start_date, weeks |-> fix_weeks,
           rows |-> new_assignments, raised |-> (fix_pc = "error")])
    /\ fix_pc' = "idle"
    /\ UNCHANGED << fix_employees, time_off_requests, schedules, fixLocals, responses,
                    fix_pending, fix_entered, refVars, engVars, appVars, tradeVars >>

\* lines 606-625: the rows of a call that has returned are inserted after the rows
\* the table holds by now and committed; 200 response
FixSave ==
    /\ \E k \in 1..Len(fix_returned) :
          LET returned == fix_returned[k].rows
              base == NextId(schedules)
              rows == [i \in 1..Len(returned) |->
                          [id |-> base + i - 1,
                           employee_id |-> returned[i].employee_id,
                           schedule_date |-> returned[i].schedule_date,
                           shift_start |-> returned[i].shift_start,
                           shift_end |-> returned[i].shift_end,
                           shift_type |-> returned[i].shift_type,
                           role |-> returned[i].role,
                           is_overtime |-> returned[i].is_overtime,
                           is_coverage |-> returned[i].is_coverage]]
          IN /\ ~fix_returned[k].raised
             /\ schedules' = schedules \o rows
             /\ responses' = Append(responses,
                   [start_date |-> fix_returned[k].start_date,
                    weeks |-> fix_returned[k].weeks, success |-> TRUE,
                    generated_shifts |-> Len(rows),
                    published |-> RowView(schedules \o rows),
                    generated |-> RowView(rows),
                    code |-> 200])
             /\ fix_returned' = RemoveAt(fix_returned, k)
    /\ UNCHANGED << fix_employees, time_off_requests, fix_pc, fixLocals, fix_pending,
                    fix_entered, refVars, engVars, appVars, tradeVars >>

\* lines 627-630: the exception reaches the endpoint; rollback, 500 response
FixFail ==
    /\ \E k \in 1..Len(fix_returned) :
          /\ fix_returned[k].raised
          /\ responses' = Append(responses,
                [start_date |-> fix_returned[k].start_date,
                 weeks |-> fix_returned[k].weeks, success |-> FALSE,
                 generated_shifts |-> 0, published |-> RowView(schedules),
                 generated |-> {}, code |-> 500])
          /\ fix_returned' = RemoveAt(fix_returned, k)
    /\ UNCHANGED << fix_employees, time_off_requests, schedules, fix_pc, fixLocals,
                    fix_pending, fix_entered, refVars, engVars, appVars, tradeVars >>

\* what the employee and time-off endpoints of app_fixed.py leave alone
FixEditFrame ==
    UNCHANGED << schedules, fix_pc, fixLocals, responses, fix_pending, fix_entered,
                 fix_returned, shift_trades, trade_response, today,
                 refVars, engVars, appVars >>

\* lines 454-496: POST /api/employees, served at any time; the row is inserted and
\* committed in one statement
FixAddEmployee ==
    /\ fix_pc # "off"
    /\ Len(api_responses) + Len(api_held) < FixEdits
    /\ \E data \in FixAddBodies :
          LET r == api_employees_post(fix_employees, data)
          IN /\ fix_employees' = r.rows
             /\ api_responses' = Append(api_responses,
                   [op |-> "add", id |-> 0, code |-> r.code])
    /\ UNCHANGED << time_off_requests, api_held >>
    /\ FixEditFrame

\* lines 498-532: PUT /api/employees/<employee_id>, served at any time, up to the
\* commit: 404 is answered at once, otherwise the handler stands before line 533
\* with the changes it is going to write (api_held)
FixUpdateEmployee ==
    /\ fix_pc # "off"
    /\ Len(api_responses) + Len(api_held) < FixEdits
    /\ \E employee_id \in 1..(Len(fix_employees) + 1), data \in FixUpdateBodies :
          LET r == fix_update_employee(fix_employees, employee_id, "PUT", data)
          IN IF r.code # 200
             THEN /\ api_responses' = Append(api_responses,
                        [op |-> "update", id |-> employee_id, code |-> r.code])
                  /\ UNCHANGED api_held
             ELSE /\ api_held' = Append(api_held,
                        [op |-> "update", id |-> employee_id, changes |-> r.changes])
                  /\ UNCHANGED api_responses
    /\ UNCHANGED << fix_employees, time_off_requests >>
    /\ FixEditFrame

\* lines 533-535 and 537-540: the commit of a PUT
FixUpdateCommit ==
    /\ fix_pc # "off"
    /\ \E k \in 1..Len(api_held) :
          LET r == fix_commit_employee(fix_employees, api_held[k].id, api_held[k].changes)
          IN /\ api_held[k].op = "update"
             /\ fix_employees' = r.rows
             /\ api_responses' = Append(api_responses,
                   [op |-> "update", id |-> api_held[k].id, code |-> r.code])
             /\ api_held' = RemoveAt(api_held, k)
    /\ UNCHANGED time_off_requests
    /\ FixEditFrame

\* lines 498-501 and 542-544: DELETE /api/employees/<employee_id> up to the commit
FixDeleteEmployee ==
    /\ fix_pc # "off"
    /\ Len(api_responses) + Len(api_held) < FixEdits
    /\ \E employee_id \in 1..(Len(fix_employees) + 1) :
          LET r == fix_update_employee(fix_employees, employee_id, "DELETE", << >>)
          IN IF r.code # 200
             THEN /\ api_responses' = Append(api_responses,
                        [op |-> "deactivate", id |-> employee_id, code |-> r.code])
                  /\ UNCHANGED api_held
             ELSE /\ api_held' = Append(api_held,
                        [op |-> "deactivate", id |-> employee_id, changes |-> r.changes])
                  /\ UNCHANGED api_responses
    /\ UNCHANGED << fix_employees, time_off_requests >>
    /\ FixEditFrame

\* lines 545-547: the commit of a DELETE
FixDeleteCommit ==
    /\ fix_pc # "off"
    /\ \E k \in 1..Len(api_held) :
          LET r == fix_commit_employee(fix_employees, api_held[k].id, api_held[k].changes)
          IN /\ api_held[k].op = "deactivate"
             /\ fix_employees' = r.rows
             /\ api_responses' = Append(api_responses,
                   [op |-> "deactivate", id |-> api_held[k].id, code |-> r.code])
             /\ api_held' = RemoveAt(api_held, k)
    /\ UNCHANGED time_off_requests
    /\ FixEditFrame

\* lines 650-664: POST /api/timeoff, served at any time, up to its commit: an error
\* of the body is answered at once (400), otherwise the row is stored and the
\* handler stands before line 666 (api_held)
FixTimeoffPost ==
    /\ fix_pc # "off"
    /\ Len(api_responses) + Len(api_held) < FixEdits
    /\ \E data \in FixTimeOffBodies :
          LET r == api_timeoff_post(time_off_requests, data)
          IN IF r.code # 201
             THEN /\ api_responses' = Append(api_responses,
                        [op |-> "timeoff", id |-> 0, code |-> r.code])
                  /\ UNCHANGED << time_off_requests, api_held >>
             ELSE /\ time_off_requests' = r.rows
                  /\ api_held' = Append(api_held,
                        [op |-> "timeoff_stored", id |-> NextId(time_off_requests),
                         changes |-> EmptyDict])
                  /\ UNCHANGED api_responses
    /\ UNCHANGED fix_employees
    /\ FixEditFrame

\* lines 666-675: the handler reads the employee of the row it has stored: 201, or
\* the exception of line 666 (rollback of nothing, 400, the row stays stored)
FixTimeoffAnswer ==
    /\ fix_pc # "off"
    /\ \E k \in 1..Len(api_held) :
          /\ api_held[k].op = "timeoff_stored"
          /\ api_responses' = Append(api_responses,
                [op |-> "timeoff", id |-> 0,
                 code |-> IF req_employee(time_off_requests, fix_employees,
                                          api_held[k].id) = << >>
                          THEN 400 ELSE 201])
          /\ api_held' = RemoveAt(api_held, k)
    /\ UNCHANGED << fix_employees, time_off_requests >>
    /\ FixEditFrame

\* lines 677-682: PUT /api/timeoff/<request_id>/approve up to the commit
FixApproveTimeoff ==
    /\ fix_pc # "off"
    /\ Len(api_responses) + Len(api_held) < FixEdits
    /\ \E request_id \in 1..(Len(time_off_requests) + 1) :
          LET r == fix_decide_timeoff(time_off_requests, request_id, "APPROVED")
          IN IF r.code # 200
             THEN /\ api_responses' = Append(api_responses,
                        [op |-> "approve", id |-> request_id, code |-> r.code])
                  /\ UNCHANGED api_held
             ELSE /\ api_held' = Append(api_held,
                        [op |-> "approve", id |-> request_id, changes |-> r.changes])
                  /\ UNCHANGED api_responses
    /\ UNCHANGED << fix_employees, time_off_requests >>
    /\ FixEditFrame

\* lines 683-684: the commit of an approval; the handler stands before line 686
FixApproveCommit ==
    /\ fix_pc # "off"
    /\ \E k \in 1..Len(api_held) :
          /\ api_held[k].op = "approve"
          /\ time_off_requests' = commit_changes(time_off_requests, api_held[k].id,
                                                 api_held[k].changes)
          /\ api_held' = [api_held EXCEPT ![k] =
                [op |-> "approve_committed", id |-> api_held[k].id, changes |-> EmptyDict]]
    /\ UNCHANGED << fix_employees, api_responses >>
    /\ FixEditFrame

\* lines 686-692: the handler reads the employee of the request it has approved: 200,
\* or the exception of line 686 (500, the approval stays committed)
FixApproveAnswer ==
    /\ fix_pc # "off"
    /\ \E k \in 1..Len(api_held) :
          /\ api_held[k].op = "approve_committed"
          /\ api_responses' = Append(api_responses,
                [op |-> "approve", id |-> api_held[k].id,
                 code |-> IF req_employee(time_off_requests, fix_employees,
                                          api_held[k].id) = << >>
                          THEN 500 ELSE 200])
          /\ api_held' = RemoveAt(api_held, k)
    /\ UNCHANGED << fix_employees, time_off_requests >>
    /\ FixEditFrame

\* lines 694-698: PUT /api/timeoff/<request_id>/deny up to the commit
FixDenyTimeoff ==
    /\ fix_pc # "off"
    /\ Len(api_responses) + Len(api_held) < FixEdits
    /\ \E request_id \in 1..(Len(time_off_requests) + 1) :
          LET r == fix_decide_timeoff(time_off_requests, request_id, "DENIED")
          IN IF r.code # 200
             THEN /\ api_responses' = Append(api_responses,
                        [op |-> "deny", id |-> request_id, code |-> r.code])
                  /\ UNCHANGED api_held
             ELSE /\ api_held' = Append(api_held,
                        [op |-> "deny", id |-> request_id, changes |-> r.changes])
                  /\ UNCHANGED api_responses
    /\ UNCHANGED << fix_employees, time_off_requests >>
    /\ FixEditFrame

\* lines 699-700: the commit of a denial; the handler stands before line 702
FixDenyCommit ==
    /\ fix_pc # "off"
    /\ \E k \in 1..Len(api_held) :
          /\ api_held[k].op = "deny"
          /\ time_off_requests' = commit_changes(time_off_requests, api_held[k].id,
                                                 api_held[k].changes)
          /\ api_held' = [api_held EXCEPT ![k] =
                [op |-> "deny_committed", id |-> api_held[k].id, changes |-> EmptyDict]]
    /\ UNCHANGED << fix_employees, api_responses >>
    /\ FixEditFrame

\* lines 702-708: the handler reads the employee of the request it has denied: 200,
\* or the exception of line 702 (500, the denial stays committed)
FixDenyAnswer ==
    /\ fix_pc # "off"
    /\ \E k \in 1..Len(api_held) :
          /\ api_held[k].op = "deny_committed"
          /\ api_responses' = Append(api_responses,
                [op |-> "deny", id |-> api_held[k].id,
                 code |-> IF req_employee(time_off_requests, fix_employees,
                                          api_held[k].id) = << >>
                          THEN 500 ELSE 200])
          /\ api_held' = RemoveAt(api_held, k)
    /\ UNCHANGED << fix_employees, time_off_requests >>
    /\ FixEditFrame

FixNext ==
    \/ FixRequest \/ FixEntry \/ FixReadTimeOffs \/ FixBegin \/ FixPools \/ FixAssignDay
    \/ FixAssignNight \/ FixReturn \/ FixSave \/ FixFail
    \/ FixAddEmployee \/ FixUpdateEmployee \/ FixUpdateCommit
    \/ FixDeleteEmployee \/ FixDeleteCommit
    \/ FixTimeoffPost \/ FixTimeoffAnswer
    \/ FixApproveTimeoff \/ FixApproveCommit \/ FixApproveAnswer
    \/ FixDenyTimeoff \/ FixDenyCommit \/ FixDenyAnswer

----------------------------------------------------------------------------
(* app_fixed.py : /api/trades, approve and deny; the replacement POST      *)
(* handler of deepseek_python_20250929_62207b.py                           *)

\* Schedule.query.get(id): << >> is None, << row >> is the row
schedule_get(rows, id) ==
    SelectSeqIdx(rows, LAMBDA r : r.id = id)

\* ShiftTrade.query.get(id)
trade_get(rows, id) ==
    SelectSeqIdx(rows, LAMBDA r : r.id = id)

\* app_fixed.py 745-752: the checks of POST /api/trades on the two rows it has read;
\* "" when the trade is accepted
api_trades_post(original_schedule, trade_schedule, data) ==
    IF original_schedule = << >> \/ trade_schedule = << >>
    THEN "One or both schedules not found"
    ELSE IF original_schedule[1].employee_id # data.requesting_employee_id
    THEN "Original schedule does not belong to requesting employee"
    ELSE IF trade_schedule[1].employee_id # data.target_employee_id
    THEN "Trade schedule does not belong to target employee"
    ELSE ""

\* deepseek_python_20250929_62207b.py 46-63: the checks of the replacement handler
patch_api_trades_post(original_schedule, trade_schedule, data, now) ==
    IF original_schedule = << >>
    THEN "Original schedule " \o ToString(data.original_schedule_id) \o " not found"
    ELSE IF trade_schedule = << >>
    THEN "Trade schedule " \o ToString(data.trade_schedule_id) \o " not found"
    ELSE IF original_schedule[1].employee_id # data.requesting_employee_id
    THEN "Original schedule does not belong to requesting employee"
    ELSE IF trade_schedule[1].employee_id # data.target_employee_id
    THEN "Trade schedule does not belong to target employee"
    ELSE IF original_schedule[1].schedule_date < now
    THEN "Cannot trade shifts that have already occurred"
    ELSE IF trade_schedule[1].schedule_date < now
    THEN "Cannot trade shifts that have already occurred"
    ELSE ""

\* ShiftTrade(...) with the column default of status
new_trade(rows, data) ==
    [id |-> Len(rows) + 1,
     requesting_employee_id |-> data.requesting_employee_id,
     target_employee_id |-> data.target_employee_id,
     original_schedule_id |-> data.original_schedule_id,
     trade_schedule_id |-> data.trade_schedule_id,
     status |-> "PENDING"]

\* app_fixed.py 790-801: the swap of the employees of the two rows as the handler
\* has read them, written by the commit: a row gets an UPDATE when its employee_id
\* has changed, and the UPDATE of a row that is gone raises (StaleDataError)
swap(rows, original_schedule, trade_schedule) ==
    LET original_employee_id == original_schedule.employee_id
        target_employee_id == trade_schedule.employee_id
        writes == IF original_employee_id = target_employee_id THEN {}
                  ELSE {original_schedule.id, trade_schedule.id}
        value(id) == IF id = original_schedule.id THEN target_employee_id
                     ELSE original_employee_id
    IN [raised |-> \E id \in writes : schedule_get(rows, id) = << >>,
        rows |-> [i \in 1..Len(rows) |->
                     IF rows[i].id \in writes
                     THEN [rows[i] EXCEPT !.employee_id = value(rows[i].id)]
                     ELSE rows[i]]]

\* the request bodies of POST /api/trades: two employees, the first two schedule ids
TradeEmployeeIds == { FixStaff[i].id : i \in 1..2 }
TradeScheduleIds == {1, 2}
TradeRequests ==
    [requesting_employee_id : TradeEmployeeIds, target_employee_id : TradeEmployeeIds,
     original_schedule_id : TradeScheduleIds, trade_schedule_id : TradeScheduleIds]

NoResponse == [op |-> "none", code |-> 0, error |-> ""]

\* no trade endpoint and no employee or time-off endpoint has answered
TradeIdle ==
    /\ shift_trades = << >>
    /\ trade_response = NoResponse
    /\ api_responses = << >>
    /\ api_held = << >>

\* what the trade endpoints leave alone
TradeFrame ==
    UNCHANGED << today, fix_employees, time_off_requests, fix_pc, fixLocals,
                 responses, fix_pending, fix_entered, fix_returned,
                 refVars, engVars, appVars >>

\* a trade endpoint answers: the handler k leaves api_held (k = 0: it never entered)
TradeAnswer(k, op, name, id, code, error) ==
    /\ trade_response' = [op |-> op, code |-> code, error |-> error]
    /\ api_responses' = Append(api_responses, [op |-> name, id |-> id, code |-> code])
    /\ api_held' = RemoveAt(api_held, k)

\* the handler k goes on to its next read or write as h
TradeGo(k, h) ==
    /\ api_held' = [api_held EXCEPT ![k] = h]
    /\ UNCHANGED << trade_response, api_responses >>

\* app_fixed.py 743-774 and deepseek_python_20250929_62207b.py 44-85: the steps of a
\* POST /api/trades that has read its original schedule; error is what the checks
\* of the handler give on that row and on the trade schedule as it is read now.
\* at 743: the read of the trade schedule and the checks; at 762: the trade is
\* stored and committed, which expires the objects of the session; at 765: the two
\* employees of the trade are loaded (the employees table only grows, so one step
\* reads both); at 156: to_dict loads the original schedule from the table; at 158:
\* it loads the trade schedule, which with equal ids is the object line 156 has
\* just refreshed: no read.  An exception after the commit is answered 400 with
\* the trade stored
create_trade(k, error) ==
    LET h == api_held[k]
        data == h.changes
    IN IF h.at = 743
       THEN /\ IF error # "" THEN TradeAnswer(k, "create", "trade", 0, 400, error)
               ELSE TradeGo(k, [h EXCEPT !.at = 762])
            /\ UNCHANGED shift_trades
       ELSE IF h.at = 762
       THEN /\ shift_trades' = Append(shift_trades, new_trade(shift_trades, data))
            /\ TradeGo(k, [h EXCEPT !.at = 765])
       ELSE IF h.at = 765
       THEN /\ IF employee_get(fix_employees, data.requesting_employee_id) = 0
                  \/ employee_get(fix_employees, data.target_employee_id) = 0
               THEN TradeAnswer(k, "create", "trade", 0, 400, "AttributeError")
               ELSE TradeGo(k, [h EXCEPT !.at = 156])
            /\ UNCHANGED shift_trades
       ELSE IF h.at = 156
       THEN /\ IF schedule_get(schedules, data.original_schedule_id) = << >>
               THEN TradeAnswer(k, "create", "trade", 0, 400, "AttributeError")
               ELSE TradeGo(k, [h EXCEPT !.at = 158])
            /\ UNCHANGED shift_trades
       ELSE /\ IF /\ data.trade_schedule_id # data.original_schedule_id
                     /\ schedule_get(schedules, data.trade_schedule_id) = << >>
               THEN TradeAnswer(k, "create", "trade", 0, 400, "AttributeError")
               ELSE TradeAnswer(k, "create", "trade", 0, 201, "")
            /\ UNCHANGED shift_trades

\* app_fixed.py 736-774: POST /api/trades, served at any time.  Every read and write
\* of the tables is a step of its own: a new request reads its original schedule
\* (742) and stands before line 743 (api_held); a request that is under way takes
\* its next step.  Schedule.query.get at 743 reads the table, unless it asks for the
\* id of the row read at 742: then it returns that object of the session as it was
\* read, without a read
FixCreateTrade ==
    /\ fix_pc # "off"
    /\ \E k \in 0..Len(api_held) :
          IF k = 0
          THEN /\ Len(api_responses) + Len(api_held) < FixEdits
               /\ Len(shift_trades) < TradeMax
               /\ \E data \in TradeRequests :
                     api_held' = Append(api_held,
                        [op |-> "trade", id |-> 0, changes |-> data, at |-> 743,
                         original_schedule |->
                             schedule_get(schedules, data.original_schedule_id)])
               /\ UNCHANGED << shift_trades, trade_response, api_responses >>
          ELSE /\ api_held[k].op = "trade"
               /\ LET h == api_held[k]
                      trade_schedule ==
                          IF /\ h.changes.trade_schedule_id = h.changes.original_schedule_id
                             /\ h.original_schedule # << >>
                          THEN h.original_schedule
                          ELSE schedule_get(schedules, h.changes.trade_schedule_id)
                  IN create_trade(k, api_trades_post(h.original_schedule, trade_schedule,
                                                     h.changes))
    /\ UNCHANGED schedules
    /\ TradeFrame

\* deepseek_python_20250929_62207b.py 37-85: POST /api/trades of the replacement
\* handler, when that is the deployed one; datetime.now().date() is today.  The
\* read of line 44 is that of line 743 of app_fixed.py: of the table, or with the id
\* of the row read at 43 that object without a read
PatchCreateTrade ==
    /\ fix_pc # "off"
    /\ \E k \in 0..Len(api_held) :
          IF k = 0
          THEN /\ Len(api_responses) + Len(api_held) < FixEdits
               /\ Len(shift_trades) < TradeMax
               /\ \E data \in TradeRequests :
                     api_held' = Append(api_held,
                        [op |-> "patch_trade", id |-> 0, changes |-> data, at |-> 743,
                         original_schedule |->
                             schedule_get(schedules, data.original_schedule_id)])
               /\ UNCHANGED << shift_trades, trade_response, api_responses >>
          ELSE /\ api_held[k].op = "patch_trade"
               /\ LET h == api_held[k]
                      trade_schedule ==
                          IF /\ h.changes.trade_schedule_id = h.changes.original_schedule_id
                             /\ h.original_schedule # << >>
                          THEN h.original_schedule
                          ELSE schedule_get(schedules, h.changes.trade_schedule_id)
                  IN create_trade(k, patch_api_trades_post(h.original_schedule,
                                         trade_schedule, h.changes, today))
    /\ UNCHANGED schedules
    /\ TradeFrame

\* app_fixed.py 776-812: PUT /api/trades/<id>/approve, served at any time.  A new
\* request reads the trade (780; get_or_404 aborts inside the try block: rollback,
\* 500) and tests the status it has read (782).  A request that is under way loads
\* the original schedule (786), loads the trade schedule, the same object when the
\* ids are equal, and swaps the employees it has read (787-798; employee_id of None
\* raises AttributeError: 500), and commits (801): 200, or rollback and 500 when a
\* row it writes is gone
FixApproveTrade ==
    /\ fix_pc # "off"
    /\ \E k \in 0..Len(api_held) :
          IF k = 0
          THEN /\ Len(api_responses) + Len(api_held) < FixEdits
               /\ \E trade_id \in 1..(Len(shift_trades) + 1) :
                     LET found == trade_get(shift_trades, trade_id)
                     IN IF found = << >>
                        THEN TradeAnswer(0, "approve", "approve_trade", trade_id,
                                         500, "404 Not Found")
                        ELSE IF found[1].status # "PENDING"
                        THEN TradeAnswer(0, "approve", "approve_trade", trade_id,
                                         400, "Trade is not pending")
                        ELSE /\ api_held' = Append(api_held,
                                   [op |-> "approve_trade", id |-> trade_id,
                                    changes |-> found[1], at |-> 786,
                                    original_schedule |-> << >>,
                                    trade_schedule |-> << >>])
                             /\ UNCHANGED << trade_response, api_responses >>
               /\ UNCHANGED << schedules, shift_trades >>
          ELSE /\ api_held[k].op = "approve_trade"
               /\ LET h == api_held[k]
                      trade == h.changes
                  IN IF h.at = 786
                     THEN /\ TradeGo(k, [h EXCEPT !.at = 787, !.original_schedule =
                                 schedule_get(schedules, trade.original_schedule_id)])
                          /\ UNCHANGED << schedules, shift_trades >>
                     ELSE IF h.at = 787
                     THEN LET trade_schedule ==
                                  IF trade.trade_schedule_id = trade.original_schedule_id
                                  THEN h.original_schedule
                                  ELSE schedule_get(schedules, trade.trade_schedule_id)
                          IN /\ IF h.original_schedule = << >> \/ trade_schedule = << >>
                                THEN TradeAnswer(k, "approve", "approve_trade", h.id,
                                                 500, "AttributeError")
                                ELSE TradeGo(k, [h EXCEPT !.at = 801,
                                                          !.trade_schedule = trade_schedule])
                             /\ UNCHANGED << schedules, shift_trades >>
                     ELSE LET r == swap(schedules, h.original_schedule[1],
                                        h.trade_schedule[1])
                          IN IF r.raised
                             THEN /\ TradeAnswer(k, "approve", "approve_trade", h.id,
                                                 500, "StaleDataError")
                                  /\ UNCHANGED << schedules, shift_trades >>
                             ELSE /\ schedules' = r.rows
                                  /\ shift_trades' = commit_changes(shift_trades, h.id,
                                                        [status |-> "APPROVED"])
                                  /\ TradeAnswer(k, "approve", "approve_trade", h.id,
                                                 200, "")
    /\ TradeFrame

\* app_fixed.py 814-828: PUT /api/trades/<id>/deny, served at any time.  A new
\* request reads the trade (818; get_or_404 aborts inside the try block: 500) and
\* sets its status whatever it was (819); a request that is under way commits the
\* status when it has changed (820): 200
FixDenyTrade ==
    /\ fix_pc # "off"
    /\ \E k \in 0..Len(api_held) :
          IF k = 0
          THEN /\ Len(api_responses) + Len(api_held) < FixEdits
               /\ \E trade_id \in 1..(Len(shift_trades) + 1) :
                     LET found == trade_get(shift_trades, trade_id)
                     IN IF found = << >>
                        THEN TradeAnswer(0, "deny", "deny_trade", trade_id,
                                         500, "404 Not Found")
                        ELSE /\ api_held' = Append(api_held,
                                   [op |-> "deny_trade", id |-> trade_id,
                                    changes |-> IF found[1].status # "DENIED"
                                                THEN [status |-> "DENIED"]
                                                ELSE EmptyDict])
                             /\ UNCHANGED << trade_response, api_responses >>
               /\ UNCHANGED shift_trades
          ELSE /\ api_held[k].op = "deny_trade"
               /\ shift_trades' = commit_changes(shift_trades, api_held[k].id,
                                                 api_held[k].changes)
               /\ TradeAnswer(k, "deny", "deny_trade", api_held[k].id, 200, "")
    /\ UNCHANGED schedules
    /\ TradeFrame

TradeNext == FixCreateTrade \/ PatchCreateTrade \/ FixApproveTrade \/ FixDenyTrade

----------------------------------------------------------------------------
(* Specifications: one program runs, the others stay idle                  *)

RefInit == RefStart /\ EngIdle /\ AppIdle /\ FixIdle /\ TradeIdle /\ today = 0
EngInit == EngStart /\ RefIdle /\ AppIdle /\ FixIdle /\ TradeIdle /\ today = 0
AppInit == AppStart /\ RefIdle /\ EngIdle /\ FixIdle /\ TradeIdle /\ today = AppStartDay
FixInit == FixStart /\ TradeIdle /\ RefIdle /\ EngIdle /\ AppIdle /\ today = FixFirstStart

LeaveInit == LeaveStart /\ RefIdle /\ EngIdle /\ FixIdle /\ TradeIdle /\ today = AppStartDay

Init == RefInit \/ EngInit \/ AppInit \/ FixInit
Next == RefNext \/ EngNext \/ AppNext \/ FixNext \/ TradeNext

SpecRef == RefInit /\ [][RefNext]_vars
SpecEng == EngInit /\ [][EngNext]_vars
SpecApp == AppInit /\ [][AppNext]_vars
\* app.py with an approved time-off request in its table
SpecLeave == LeaveInit /\ [][AppNext]_vars
SpecFix == FixInit /\ [][FixNext \/ TradeNext]_vars
Spec    == Init /\ [][Next]_vars
\* the time-off endpoints of the two servers, each over its own tables
TimeOffNext ==
    \/ AppTimeoffPost \/ AppTimeoffInsert \/ AppApproveTimeoff \/ AppApproveCommit
    \/ AppDenyTimeoff \/ AppDenyCommit
    \/ FixTimeoffPost \/ FixTimeoffAnswer
    \/ FixApproveTimeoff \/ FixApproveCommit \/ FixApproveAnswer
    \/ FixDenyTimeoff \/ FixDenyCommit \/ FixDenyAnswer
SpecTimeOff == (AppInit \/ FixInit) /\ [][TimeOffNext]_vars
AuditInit == AuditStart /\ EngIdle /\ AppIdle /\ FixIdle /\ TradeIdle /\ today = 0
SpecAudit == AuditInit /\ [][RefAudit]_vars

----------------------------------------------------------------------------
(* Properties                                                              *)

\* the start and end instants of an app.py assignment
AppStartOf(a) == combine(a.schedule_date, a.shift_start)
AppEndOf(a) == end_instant(a.schedule_date, a.shift_start, a.shift_end)

\* C1 : in the assignment list of app.py generate_schedule, between two assignments of
\* one employee that are consecutive in time, the gap from the end instant of the earlier
\* shift (an overnight shift ends on the day after its date) to the start instant of the
\* later one is at least the minimum rest of 10 hours.
C1_RestGap ==
    \A i, j \in 1..Len(app_assignments) :
        LET a == app_assignments[i]
            b == app_assignments[j]
        IN (/\ i # j
            /\ a.employee_id = b.employee_id
            /\ AppStartOf(a) <= AppStartOf(b)
            /\ ~\E k \in 1..Len(app_assignments) :
                   /\ app_assignments[k].employee_id = a.employee_id
                   /\ AppStartOf(a) < AppStartOf(app_assignments[k])
                   /\ AppStartOf(app_assignments[k]) < AppStartOf(b))
           => AppStartOf(b) - AppEndOf(a) >= Hrs(MIN_REST_HOURS)

\* the dates on which scheduling_engine.py gave the employee a shift
EngDatesOf(id) ==
    { schedule_data[i].date : i \in { j \in 1..Len(schedule_data) :
                                          schedule_data[j].employee_id = id } }

\* the dates on which the reference script / app.py gave the employee a shift
RefDatesOf(p) ==
    { assignments[i].date : i \in { j \in 1..Len(assignments) : assignments[j].person = p } }
AppDatesOf(id) ==
    { app_assignments[i].schedule_date :
        i \in { j \in 1..Len(app_assignments) : app_assignments[j].employee_id = id } }

\* the set of dates holds no run of more than cap consecutive dates
NoLongRun(dates, cap) == ~\E s \in dates : \A k \in 1..cap : s + k \in dates

\* C2 : in the assignments of a generation run no employee has assignments on more than
\* the maximum number of consecutive calendar dates: MAX_CONSECUTIVE_DAYS in the
\* reference script, max_consecutive_days of the row in scheduling_engine.py, 5 in app.py.
C2_MaxConsecutive ==
    /\ \A p \in DOMAIN worked_days_seq : NoLongRun(RefDatesOf(p), MAX_CONSECUTIVE_DAYS)
    /\ \A n \in 1..Len(eng_employees) :
          NoLongRun(EngDatesOf(eng_employees[n].id), eng_employees[n].max_consecutive_days)
    /\ \A n \in 1..Len(employees_sorted) :
          NoLongRun(AppDatesOf(employees_sorted[n].id), 5)

\* a finished run of the reference script in which an employee worked the maximum
\* number of dates in a row and not the next date, which the horizon holds
C2_Witness ==
    /\ ref_pc = "done"
    /\ \E p \in DOMAIN worked_days_seq :
          LET D == RefDatesOf(p) IN
          \E s \in D :
             /\ \A k \in 0..(MAX_CONSECUTIVE_DAYS - 1) : s + k \in D
             /\ s + MAX_CONSECUTIVE_DAYS \notin D
             /\ s + MAX_CONSECUTIVE_DAYS < start_date + days_total

EngRow(id) == CHOOSE e \in { eng_employees[i] : i \in 1..Len(eng_employees) } : e.id = id
\* the row of an employee as the running generation read it
AppRow(id) == CHOOSE e \in { employees_sorted[i] : i \in 1..Len(employees_sorted) } : e.id = id
FixRow(id) == CHOOSE e \in { fix_read.employees[i] : i \in 1..Len(fix_read.employees) } : e.id = id

\* C3 : no generated assignment puts a nights-only employee in a Day slot or a days-only
\* employee in a Night slot, whichever generator produced it and however short the pool.
C3_ModeRespected ==
    /\ \A i \in 1..Len(assignments) :
          /\ assignments[i].person \in NIGHTS_ONLY => assignments[i].period = "Night"
          /\ assignments[i].person \in DAYS_ONLY => assignments[i].period = "Day"
    /\ \A i \in 1..Len(schedule_data) :
          /\ EngRow(schedule_data[i].employee_id).shift_type = "NIGHT"
                => schedule_data[i].shift_type = "Night"
          /\ EngRow(schedule_data[i].employee_id).shift_type = "DAY"
                => schedule_data[i].shift_type = "Day"
    /\ \A i \in 1..Len(app_assignments) :
          AppRow(app_assignments[i].employee_id).nights_only
             => app_assignments[i].shift_type = "NIGHT"
    /\ \A i \in 1..Len(new_assignments) :
          FixRow(new_assignments[i].employee_id).nights_only
             => new_assignments[i].shift_type = "NIGHT"

\* a run of the reference script with the nights-only employee on the roster, in which a
\* Day slot went unfilled on a date after she had worked a Night slot
C3_Witness ==
    /\ ref_pc = "done"
    /\ \E i, j \in 1..Len(assignments) :
          /\ assignments[i].person = "Nicole Dempster"
          /\ assignments[i].period = "Night"
          /\ assignments[j].person = UNFILLED
          /\ assignments[j].period = "Day"
          /\ assignments[j].date > assignments[i].date

\* an approved request of the table rows covers the date for the employee and the
\* period, both end dates included
Covers(rows, id, date, period) ==
    \E i \in 1..Len(rows) :
        LET r == rows[i] IN
        /\ r.status = "APPROVED"
        /\ r.employee_id = id
        /\ r.start_date <= date /\ date <= r.end_date
        /\ r.shift_type \in {period, "BOTH"}

\* an approved request of the employee covers the date for the period (app_fixed.py)
OnApprovedLeave(id, date, period) == Covers(time_off_requests, id, date, period)

\* the pools of the current date are built, and no time-off endpoint has changed the
\* time_off_requests table since the server started: none has answered, and none
\* stands between its commit and its answer
NoTimeOffEdit ==
    /\ \A i \in 1..Len(api_responses) :
          api_responses[i].op \notin {"timeoff", "approve", "deny"}
    /\ \A k \in 1..Len(api_held) :
          api_held[k].op \notin {"timeoff_stored", "approve_committed", "deny_committed"}
FixPoolsBuilt == fix_pc \in {"assign_day", "assign_night", "error"} /\ NoTimeOffEdit

\* C4 : for every approved time-off request, no generated assignment gives its
\* employee a slot of a matching period (Both matches Day and Night) on a date from
\* its start to its end, both included.  Stated for the rows a run of app.py has
\* generated and for the rows it has published, and for the rows app_fixed.py
\* publishes (it never publishes one).
C4_AbsenceExcluded ==
    /\ \A i \in 1..Len(app_assignments) :
          ~Covers(timeoff_requests, app_assignments[i].employee_id,
                  app_assignments[i].schedule_date, app_assignments[i].shift_type)
    /\ \A i \in 1..Len(app_schedules) :
          ~Covers(timeoff_requests, app_schedules[i].employee_id,
                  app_schedules[i].schedule_date, app_schedules[i].shift_type)
    /\ \A i \in 1..Len(schedules) :
          ~OnApprovedLeave(schedules[i].employee_id, schedules[i].schedule_date,
                           schedules[i].shift_type)

\* C5 : no generated assignment has a date whose weekday is in the blackout weekdays
\* (cannot_work_days) of the assigned employee.
C5_BlackoutRespected ==
    /\ \A i \in 1..Len(assignments) :
          assignments[i].person \in DOMAIN CANNOT_WORK_DOW
             => strftime_a(assignments[i].date) \notin CANNOT_WORK_DOW[assignments[i].person]
    /\ \A i \in 1..Len(schedule_data) :
          strftime_a(schedule_data[i].date)
             \notin EngRow(schedule_data[i].employee_id).cannot_work_days
    /\ \A i \in 1..Len(app_assignments) :
          strftime_a(app_assignments[i].schedule_date)
             \notin AppRow(app_assignments[i].employee_id).cannot_work_days

\* a finished run of the reference script in which an employee with a blackout weekday
\* works the day before that weekday and the horizon holds the weekday itself
C5_Witness ==
    /\ ref_pc = "done"
    /\ \E i \in 1..Len(assignments) :
          LET p == assignments[i].person IN
          /\ p \in DOMAIN CANNOT_WORK_DOW
          /\ strftime_a(assignments[i].date + 1) \in CANNOT_WORK_DOW[p]
          /\ assignments[i].date + 1 < start_date + days_total

\* C6 : within one run of scheduling_engine.py no employee holds two assignments on the
\* same date, Day and Night slots of that date included.
C6_OneSlotPerDate ==
    \A i, j \in 1..Len(schedule_data) :
        (i # j /\ schedule_data[i].employee_id = schedule_data[j].employee_id)
           => schedule_data[i].date # schedule_data[j].date

\* C7 : when a pool of app_fixed.py is short, nobody who fails the eligibility-mode or
\* absence rule is added to it: every member of the Day pool may work Day shifts, every
\* member of the Night pool may work Night shifts, and none is on approved leave.
C7_NoRelaxedEligibility ==
    FixPoolsBuilt =>
       /\ \A i \in 1..Len(available_day_employees) :
             /\ can_work_day_shift(available_day_employees[i])
             /\ ~OnApprovedLeave(available_day_employees[i].id, fix_date, "DAY")
       /\ \A i \in 1..Len(available_night_employees) :
             /\ can_work_night_shift(available_night_employees[i])
             /\ ~OnApprovedLeave(available_night_employees[i].id, fix_date, "NIGHT")

\* C8 : a finished run of app_fixed.py holds exactly one outcome for every slot of the
\* template of every date of its horizon (59 for a week).
C8_OneOutcomePerSlot ==
    fix_pc = "save" =>
       \A k \in 0..(fix_days - 1) :
          LET dt == fix_start_date + k
              shifts == (IF weekday(dt) >= 5 THEN fix_day_shifts_weekend
                         ELSE fix_day_shifts_weekday) \o fix_night_shifts
          IN \A n \in 1..Len(shifts) :
                Cardinality({ i \in 1..Len(new_assignments) :
                                 /\ new_assignments[i].schedule_date = dt
                                 /\ new_assignments[i].role = shifts[n][1] }) = 1

\* C9 : generation is deterministic and regeneration idempotent: two answered
\* requests of app.py for the same start date and horizon whose runs read the same
\* employees end alike, report the same number of shifts and yield the same set of
\* assignments (app.py reads no time-off request; a run of app_fixed.py ends in an
\* error or with no row, whatever it read).
C9_Idempotent ==
    \A i, j \in 1..Len(app_responses) :
        (/\ app_responses[i].start_date = app_responses[j].start_date
         /\ app_responses[i].weeks = app_responses[j].weeks
         /\ app_responses[i].read = app_responses[j].read)
        => /\ app_responses[j].success = app_responses[i].success
           /\ app_responses[j].generated_shifts = app_responses[i].generated_shifts
           /\ app_responses[j].generated = app_responses[i].generated

\* C10 : in the reference script the person given a slot is never a candidate for whom
\* another candidate, tied on the under-target flag and on overtime, has strictly fewer
\* hours so far this week.
C10_FairnessMonotone ==
    \A i, j \in 1..Len(candidates) :
        (/\ candidates[i][1] = candidates[j][1]
         /\ candidates[i][2] = candidates[j][2]
         /\ candidates[i][3] < candidates[j][3])
        => person # candidates[j][4]

\* the rows dated inside / outside the range of days dates that starts at start
RowsInside(rows, start, days) ==
    SelectSeqIdx(rows, LAMBDA r : r.schedule_date >= start /\ r.schedule_date < start + days)
RowsOutside(rows, start, days) ==
    SelectSeqIdx(rows, LAMBDA r : ~(r.schedule_date >= start /\ r.schedule_date < start + days))

\* a step of app.py that accepts a generation request: lines 368-386 ran to their commit
AppAcceptStep == Len(app_pending') > Len(app_pending)

\* a step of app.py that answers a generation request
AppAnswerStep == Len(app_responses') > Len(app_responses)

\* C11: regenerating a date range removes every previously published record
\* dated inside the range and leaves every record outside the range untouched:
\* once the request is accepted no earlier row of the range remains and the rows
\* outside it are the ones there were; the step that answers a request (save,
\* failure, rejection) changes no row outside the range of that request, and no
\* other step changes a row.  Stated for app.py, the one server whose schedules
\* table ever holds a row.
C11_RegenerateFrame ==
    [][ /\ AppAcceptStep =>
              LET q == app_pending'[Len(app_pending')] IN
              /\ RowsInside(app_schedules', q.start_dt, q.total_days) = << >>
              /\ app_schedules' = RowsOutside(app_schedules, q.start_dt, q.total_days)
        /\ AppAnswerStep =>
              LET a == app_responses'[Len(app_responses')] IN
              RowsOutside(app_schedules', a.start_date, a.weeks * 7)
                 = RowsOutside(app_schedules, a.start_date, a.weeks * 7)
        /\ (~AppAcceptStep /\ ~AppAnswerStep) => app_schedules' = app_schedules ]_vars

\* the second of two requests of app.py found rows of the first inside and outside
\* its range: the old rows of the range are gone, new ones are published, the rows
\* after the range remain
C11_Witness ==
    /\ Len(app_responses) = 2
    /\ LET start == app_responses[2].start_date
           days == app_responses[2].weeks * 7
       IN /\ \E r \in app_responses[1].published :
                r.schedule_date >= start /\ r.schedule_date < start + days
          /\ Len(RowsInside(app_schedules, start, days)) = app_responses[2].generated_shifts
          /\ app_responses[2].generated_shifts > 0
          /\ \E j \in 1..Len(app_schedules) :
                app_schedules[j].schedule_date >= start + days

\* C12: a generation request publishes the full horizon or fails atomically: after
\* a failed request the published schedule is the one that existed before it.
\* Stated for app.py: when the second of two requests for the same range fails in
\* the engine, the rows the first one published are still the published schedule.
C12_AtomicFailure ==
    (/\ Len(app_responses) = 2
     /\ app_responses[1].success
     /\ app_responses[2].code = 500
     /\ app_responses[2].start_date = app_responses[1].start_date
     /\ app_responses[2].weeks = app_responses[1].weeks)
        => RowView(app_schedules) = app_responses[1].published

\* C13: a generation request with a valid start date, a positive number of weeks
\* and a non-empty active roster completes successfully rather than in an error.
C13_ValidRequestSucceeds ==
    \A i \in 1..Len(responses) :
        (responses[i].weeks > 0 /\ fix_read.employees # << >>) => responses[i].success

\* C14: a generation request whose number of weeks is zero or negative is rejected
\* as an input validation error: it is never answered with success.
\* Stated for /api/schedule/generate of app_fixed.py and of app.py.
C14_NonPositiveWeeksRejected ==
    /\ \A i \in 1..Len(responses) : responses[i].weeks <= 0 => ~responses[i].success
    /\ \A i \in 1..Len(app_responses) : app_responses[i].weeks <= 0 => ~app_responses[i].success

\* the time_off_requests table without its Pending and Denied rows
ApprovedOnly == SelectSeqIdx(time_off_requests, LAMBDA r : r.status = "APPROVED")

\* a step in which the run k reads the time-off requests of its range
FixReadStep(k) ==
    /\ ~fix_entered[k].read_all
    /\ Len(fix_entered') = Len(fix_entered)
    /\ fix_entered'[k].read_all

\* the pools of the n-th date of the running call, from the rows the call has read
ReadPools(n) == fix_pools(fix_read.employees, fix_read.time_offs, fix_start_date + n)

\* C19: only absence records whose status is Approved at generation time affect the
\* result of app_fixed.py: what a run reads of the time-off table is what the table
\* gives once all its Pending and Denied records are removed, the pools of a date
\* are built from the employees and the requests the run has read, and the run
\* ends as these pools decide: in the error of C13 at the first date that has a
\* candidate, with no row when no date has one.  (app.py reads no absence record.)
C19_OnlyApprovedCounts ==
    /\ [][\A k \in 1..Len(fix_entered) :
            FixReadStep(k) =>
               fix_entered'[k].read.time_offs =
                  SelectSeqIdx(ApprovedOnly,
                               LAMBDA r : /\ r.start_date <= fix_entered[k].start_date
                                                            + (fix_entered[k].weeks * 7 - 1)
                                          /\ r.end_date >= fix_entered[k].start_date)]_vars
    /\ [](fix_pc = "assign_day" =>
            /\ available_day_employees = ReadPools(day_offset).day
            /\ available_night_employees = ReadPools(day_offset).night)
    /\ [](fix_pc = "error" =>
            /\ ReadPools(day_offset).day # << >> \/ ReadPools(day_offset).night # << >>
            /\ \A n \in 0..(day_offset - 1) :
                  ReadPools(n).day = << >> /\ ReadPools(n).night = << >>)
    /\ [](fix_pc = "save" =>
            /\ new_assignments = << >>
            /\ \A n \in 0..(fix_days - 1) :
                  ReadPools(n).day = << >> /\ ReadPools(n).night = << >>)

\* a run has ended in the error at its first date: the only employee it read has a
\* request of scope Both that covers the date, which PUT /api/timeoff/<id>/deny has
\* turned to Denied, and the run read no request, so the employee is a candidate;
\* were the request approved, the pools of the date would be empty
C19_Witness ==
    /\ fix_pc = "error"
    /\ day_offset = 0
    /\ fix_read.time_offs = << >>
    /\ Len(fix_read.employees) = 1
    /\ \E i \in 1..Len(time_off_requests) :
          LET r == time_off_requests[i] IN
          /\ r.status = "DENIED" /\ r.shift_type = "BOTH"
          /\ \E j \in 1..Len(api_responses) :
                api_responses[j] = [op |-> "deny", id |-> r.id, code |-> 200]
          /\ r.employee_id = fix_read.employees[1].id
          /\ r.start_date <= fix_date /\ fix_date <= r.end_date
          /\ LET approved == << [r EXCEPT !.status = "APPROVED"] >>
                 pools == fix_pools(fix_read.employees, approved, fix_date)
             IN pools.day = << >> /\ pools.night = << >>

PoolIds(pool) == { pool[i].id : i \in 1..Len(pool) }

\* the rows of the employee with the shift type on a date from start to end
ShiftsOf(rows, id, start, end, shift_type) ==
    { i \in 1..Len(rows) : /\ rows[i].employee_id = id
                           /\ rows[i].shift_type = shift_type
                           /\ start <= rows[i].schedule_date
                           /\ rows[i].schedule_date <= end }

\* C20: an employee with an approved absence of scope Day on date D has zero Day
\* assignments on D, and one with an approved absence of scope Night has zero Night
\* assignments on D (the other period stays open to them).  Stated for the rows a
\* run of app.py has generated and for the rows it has published.
C20_ScopeOnly ==
    \A i \in 1..Len(timeoff_requests) :
        LET r == timeoff_requests[i] IN
        (r.status = "APPROVED" /\ r.shift_type \in {"DAY", "NIGHT"}) =>
            /\ ShiftsOf(app_assignments, r.employee_id, r.start_date, r.end_date,
                      r.shift_type) = {}
            /\ ShiftsOf(app_schedules, r.employee_id, r.start_date, r.end_date,
                      r.shift_type) = {}

\* (owner, start instant, date, start, end) of the assignments of the three generators
RefShifts ==
    { << assignments[i].person, combine(assignments[i].date, assignments[i].start),
         assignments[i].date, assignments[i].start, assignments[i].end >> :
        i \in { j \in 1..Len(assignments) : assignments[j].person # UNFILLED } }
EngShifts ==
    { << schedule_data[i].employee_id, combine(schedule_data[i].date, schedule_data[i].start_time),
         schedule_data[i].date, schedule_data[i].start_time, schedule_data[i].end_time >> :
        i \in 1..Len(schedule_data) }
AppShifts ==
    { << app_assignments[i].employee_id, AppStartOf(app_assignments[i]),
         app_assignments[i].schedule_date, app_assignments[i].shift_start,
         app_assignments[i].shift_end >> : i \in 1..Len(app_assignments) }

\* no owner of a 19:00-07:00 shift of date D has a shift that starts after it and
\* before 17:00 of date D + 1
NoEarlyStartAfterNight12(shifts) ==
    \A a \in shifts, b \in shifts :
        (a[1] = b[1] /\ a[4] = T(19, 0) /\ a[5] = T(7, 0) /\ a[2] < b[2])
            => b[2] >= combine(a[3] + 1, T(17, 0))

\* C21: after an employee is assigned a 12-hour night slot (19:00-07:00) that ends at
\* 07:00 on day N, the employee is assigned no slot that starts before 17:00 on day N.
\* Stated for sample_scehduler.py, scheduling_engine.py and app.py.
C21_RestAfterNight12 ==
    /\ NoEarlyStartAfterNight12(RefShifts)
    /\ NoEarlyStartAfterNight12(EngShifts)
    /\ NoEarlyStartAfterNight12(AppShifts)

\* a step of DELETE /api/employees/<emp_id> that deactivates row n
DeactivateStep(n) ==
    /\ n <= Len(app_employees')
    /\ app_employees[n].active /\ ~app_employees'[n].active

\* every owner of a generated row, and every member of a candidate pool, was active
\* in the table the run read
OnlyActiveScheduled ==
    /\ \A i \in 1..Len(app_assignments) : AppRow(app_assignments[i].employee_id).active
    /\ \A i \in 1..Len(schedule_data) : EngRow(schedule_data[i].employee_id).active
    /\ fix_pc \in {"assign_day", "assign_night", "error"} =>
          \A id \in PoolIds(available_day_employees) \cup PoolIds(available_night_employees) :
              FixRow(id).active

\* a step in which a run of app.py or app_fixed.py reads the employees
AppEntryStep == Len(app_pending') < Len(app_pending)
FixEntryStep == Len(fix_pending') < Len(fix_pending)
\* a step in which a run starts its computation on the rows it has read
AppBeginStep == Len(app_entered') < Len(app_entered)
FixBeginStep == Len(fix_entered') < Len(fix_entered)

\* a deactivated employee leaves the list of GET /api/employees, and a run
\* reads only rows that are active when it reads them
ReadsOnlyActive ==
    /\ \A n \in 1..Len(app_employees) :
          DeactivateStep(n) => app_employees[n].id \notin PoolIds(get_employees')
    /\ AppEntryStep =>
          LET read == app_entered'[Len(app_entered')].employees IN
          \A n \in 1..Len(read) :
             \E m \in 1..Len(app_employees) :
                app_employees[m] = read[n] /\ app_employees[m].active
    /\ AppBeginStep =>
          \E k \in 1..Len(app_entered) : employees_sorted' = app_entered[k].employees
    /\ FixEntryStep =>
          LET read == fix_entered'[Len(fix_entered')].read.employees IN
          \A n \in 1..Len(read) :
             \E m \in 1..Len(fix_employees) :
                fix_employees[m] = read[n] /\ fix_employees[m].active
    /\ FixBeginStep =>
          \E k \in 1..Len(fix_entered) : fix_read'.employees = fix_entered[k].read.employees

\* C22: an employee marked inactive is never assigned by a generation run
\* (scheduling_engine.py, app.py; app_fixed.py never offers one a slot): a run
\* reads only rows that are active when it reads them, and assigns only rows it read;
\* once DELETE /api/employees/<id> has deactivated an employee, GET /api/employees
\* no longer returns them.
C22_InactiveNeverScheduled ==
    /\ []OnlyActiveScheduled
    /\ [][ReadsOnlyActive]_vars

\* a finished app.py run that assigned shifts and started after DELETE
\* /api/employees/<id> had deactivated an employee
C22_Witness ==
    /\ app_pc = "done"
    /\ app_assignments # << >>
    /\ \E i \in 1..Len(api_responses) :
          /\ api_responses[i].op = "deactivate" /\ api_responses[i].code = 200
          /\ \A n \in 1..Len(employees_sorted) : employees_sorted[n].id # api_responses[i].id
    /\ Len(get_employees) < Len(app_employees)

\* the audited dates, and the slots of the template of a date
AuditDates == { start_date + n : n \in 0..(days_total - 1) }
FilledOn(date, slot) ==
    \E i \in 1..Len(assignments) :
        /\ assignments[i].date = date /\ assignments[i].role = slot[2]
        /\ assignments[i].person # UNFILLED
TemplateIdx(date) == 1..Len(slots_for_day(date))

\* C23: when every slot of the template of every date is filled, the coverage audit
\* finds the required headcount (4 from 07:00 to 19:00, 3 from 19:00 to 07:00) at
\* every 30-minute sample and reports no violation.
C23_FullyStaffedNoViolation ==
    (/\ ref_pc = "audited"
     /\ \A date \in AuditDates : \A i \in TemplateIdx(date) :
            FilledOn(date, slots_for_day(date)[i]))
        => viol = << >>

\* the sample (date, k) lies in the range of the slot of date day, which runs into the
\* next day when its end is not after its start
InSlotRange(date, k, day, slot) ==
    /\ combine(day, slot[3]) <= combine(date, k)
    /\ combine(date, k) < end_instant(day, slot[3], slot[4])
UnfilledNight(date) ==
    { i \in 1..Len(night_slots(date)) : ~FilledOn(date, night_slots(date)[i]) }

\* C24: for a day on which exactly one night slot is unfilled and every other slot is
\* filled, the coverage audit reports a violation at exactly the samples inside the
\* range of that slot, each with have = needed - 1, and at no other sample.
C24_SingleNightGapWindow ==
    \A day \in AuditDates :
        (/\ ref_pc = "audited"
         /\ days_total = 1
         /\ Cardinality(UnfilledNight(day)) = 1
         /\ \A i \in 1..Len(day_slots(day)) : FilledOn(day, day_slots(day)[i]))
            => LET slot == night_slots(day)[CHOOSE i \in UnfilledNight(day) : TRUE]
               IN /\ { << viol[n].date, viol[n].time >> : n \in 1..Len(viol) }
                        = { << date, k >> \in AuditDates \X (0..(DayHalfHours - 1)) :
                                InSlotRange(date, k, day, slot) }
                  /\ \A n \in 1..Len(viol) : viol[n].have = viol[n].needed - 1

\* row j of app.py's run was still an eligible candidate when the slot of row i was
\* given out: same date, handed out later, and its owner may work the period of row i
LaterCandidate(i, j) ==
    /\ i < j
    /\ app_assignments[i].schedule_date = app_assignments[j].schedule_date
    /\ app_assignments[i].role # "Lead"
    /\ app_assignments[i].shift_type = "DAY"
            => ~AppRow(app_assignments[j].employee_id).nights_only

\* C25: overtime is never sought: app.py gives a slot to an employee whose weekly
\* hours would pass their cap only when no eligible candidate for that slot could
\* take it within their own cap, so no overtime row is followed, on the same date,
\* by a row of a candidate who was still within cap.
C25_OvertimeOnlyWhenForced ==
    \A i \in 1..Len(app_assignments), j \in 1..Len(app_assignments) :
        (LaterCandidate(i, j) /\ app_assignments[i].is_overtime)
            => app_assignments[j].is_overtime

\* the hours of an employee that the decision for row n of the date must see: the
\* ledger of the earlier dates and, for a Night row, the Day row the employee has
\* just been given on the same date
HoursSeenBy(n, id) ==
    LET dayRows == { k \in 1..Len(all_assignments) :
                        /\ all_assignments[k].shift_type = "Day"
                        /\ all_assignments[k].employee_id = id }
    IN GetOr(employee_hours, id, 0)
         + (IF all_assignments[n].shift_type = "Night" /\ dayRows # {}
            THEN all_assignments[CHOOSE k \in dayRows : TRUE].hours ELSE 0)

\* the sort key of assign_shifts (lines 132-135) for the owner of row n, on those hours
RankSeen(n, m) ==
    << HoursSeenBy(n, all_assignments[m].employee_id),
       0 - EngRow(all_assignments[m].employee_id).hours_per_week >>

\* C26: every eligibility and ranking decision for a slot sees the ledger effects of
\* all assignments made earlier in the same run, those of the same date included: in
\* scheduling_engine.py the rows decided for a date are, within each period, in the
\* order of the ranking key on the hours that include the Day rows of that date.
C26_LedgerSeenSameDate ==
    eng_pc = "save" =>
        \A i, j \in 1..Len(all_assignments) :
            (i < j /\ all_assignments[i].shift_type = all_assignments[j].shift_type)
                => \/ RankSeen(j, i)[1] < RankSeen(j, j)[1]
                   \/ /\ RankSeen(j, i)[1] = RankSeen(j, j)[1]
                      /\ RankSeen(j, i)[2] <= RankSeen(j, j)[2]

\* the dates of the rows of a run, in the order the rows were made
RefRowDates == [i \in 1..Len(assignments) |-> assignments[i].date]
EngRowDates == [i \in 1..Len(schedule_data) |-> schedule_data[i].date]
AppRowDates == [i \in 1..Len(app_assignments) |-> app_assignments[i].schedule_date]

\* the rows are made date by date in ascending order, all inside s .. s + days - 1
AscendingWithin(dates, s, days) ==
    /\ \A i \in 1..Len(dates) : s <= dates[i] /\ dates[i] < s + days
    /\ \A i, j \in 1..Len(dates) : i < j => dates[i] <= dates[j]

\* C27: a run for start date s and w weeks processes exactly the dates s .. s + 7w - 1,
\* each once and in ascending order, and then halts: the rows of a run never go back
\* to an earlier date, and the reference build, which makes a row for every slot, has
\* rows for every date of the range when it is done.
C27_EachDateOnceAscending ==
    /\ AscendingWithin(RefRowDates, start_date, days_total)
    /\ ref_pc \in {"done", "audited"} =>
          \A n \in 0..(days_total - 1) : \E i \in 1..Len(assignments) :
              assignments[i].date = start_date + n
    /\ AscendingWithin(EngRowDates, eng_start_date, 7 * eng_weeks)
    /\ AscendingWithin(AppRowDates, app_start_dt, app_days)

\* the rows of a run in the order they were decided: date, period and lead slot or not
RefOrder == [i \in 1..Len(assignments) |->
                [date |-> assignments[i].date, night |-> assignments[i].period = "Night",
                 lead |-> assignments[i].role = "PATTY"]]
EngOrder == [i \in 1..Len(schedule_data) |->
                [date |-> schedule_data[i].date, night |-> schedule_data[i].shift_type = "Night",
                 lead |-> schedule_data[i].role = "PATTY"]]
AppOrder == [i \in 1..Len(app_assignments) |->
                [date |-> app_assignments[i].schedule_date,
                 night |-> app_assignments[i].shift_type = "NIGHT",
                 lead |-> app_assignments[i].role = "Lead"]]

\* on each date no Day row is decided before a Night row and, on a weekday, no other
\* Day row before the lead row
NightThenLeadThenDay(rows) ==
    \A i, j \in 1..Len(rows) :
        (i < j /\ rows[i].date = rows[j].date) =>
            /\ rows[j].night => rows[i].night
            /\ (weekday(rows[j].date) < 5 /\ rows[j].lead) => (rows[i].night \/ rows[i].lead)

\* C28: within each date every Night slot is resolved before any Day slot, and on a
\* weekday the lead Day slot before the remaining Day slots, in the reference build,
\* in scheduling_engine.py and in app.py.
C28_NightBeforeDay ==
    /\ NightThenLeadThenDay(RefOrder)
    /\ NightThenLeadThenDay(EngOrder)
    /\ NightThenLeadThenDay(AppOrder)

\* C29: whenever the eligible candidate set of a slot is not empty, the person given
\* the slot is the first element of the ranking of that set: in the reference build
\* nobody is moved ahead of a better-ranked candidate.
C29_TopOfRanking ==
    candidates # << >> => person = candidates[1][4]

\* the names of the roster in alphabetical order, and the place of a name in it
RankerNames ==
    << "Chloe Gray", "Lisa Dixon", "Mayra Bradley", "NewHire A", "NewHire B", "NewHire C",
       "Nicole Dempster", "Patty Golden", "Shala Johnson", "Tash Jaramillo", "Vicki Theler" >>
NamePlace(name) == CHOOSE n \in 1..Len(RankerNames) : RankerNames[n] = name

\* the candidates variable holds the ranking made for the slot of the last row
RankedForLastRow ==
    /\ candidates # << >>
    /\ assignments # << >>
    /\ assignments[Len(assignments)].person = person

\* the key the ranking is to be sorted by, for a candidate tuple and the slot hours
RankerKey(t, hrs) ==
    LET base == Hrs(BASE_TARGET(t[4]))
    IN << IF t[3] < base THEN 0 ELSE 1, Max(0, t[3] + hrs - base), t[3], NamePlace(t[4]) >>

KeyBefore(a, b) ==
    \E n \in 1..4 : a[n] < b[n] /\ \A m \in 1..(n - 1) : a[m] = b[m]

\* C30: the ranking of the reference build puts every employee under their weekly
\* target before every employee who has reached it; then less projected overtime,
\* max(0, hours so far + slot hours - weekly cap); then fewer hours so far this week;
\* and it breaks the remaining ties by employee name.
C30_RankerOrder ==
    RankedForLastRow =>
        \A i, j \in 1..Len(candidates) :
            i < j => KeyBefore(RankerKey(candidates[i], assignments[Len(assignments)].hours),
                               RankerKey(candidates[j], assignments[Len(assignments)].hours))

\* the Monday that starts the week of a date
MondayOf(date) == date - weekday(date)

\* hours of the rows 1..n of scheduling_engine.py's run that belong to the owner of
\* row n and to the week of its date, row n included
EngHoursThrough(n) ==
    SumSeq([k \in 1..n |->
               IF /\ schedule_data[k].employee_id = schedule_data[n].employee_id
                  /\ MondayOf(schedule_data[k].date) = MondayOf(schedule_data[n].date)
               THEN schedule_data[k].hours ELSE 0])

\* the same for the rows of app.py's run
AppHoursThrough(n) ==
    SumSeq([k \in 1..n |->
               IF /\ app_assignments[k].employee_id = app_assignments[n].employee_id
                  /\ MondayOf(app_assignments[k].schedule_date)
                        = MondayOf(app_assignments[n].schedule_date)
               THEN calculate_shift_hours(app_assignments[k].shift_start,
                                          app_assignments[k].shift_end)
               ELSE 0])

C31_Eng ==
    \A n \in 1..Len(schedule_data) :
        schedule_data[n].is_overtime
            <=> EngHoursThrough(n) > Hrs(EngRow(schedule_data[n].employee_id).hours_per_week)
C31_App ==
    \A n \in 1..Len(app_assignments) :
        app_assignments[n].is_overtime
            <=> AppHoursThrough(n) > Hrs(AppRow(app_assignments[n].employee_id).max_hours_per_week)

\* C31: the overtime flag of an assignment is true exactly when the employee's hours
\* in the week of the assignment, this assignment included, exceed the employee's
\* weekly cap, in scheduling_engine.py and in app.py.
C31_OvertimeFlagExact ==
    C31_Eng /\ C31_App

\* hours of the rows of the reference build before the last one that belong to person p
\* and to the week of the last row
RefWeekHoursBeforeLast(p) ==
    LET n == Len(assignments)
    IN SumSeq([k \in 1..(n - 1) |->
                  IF /\ assignments[k].person = p
                     /\ assignments[k].week_start = assignments[n].week_start
                  THEN assignments[k].hours ELSE 0])

\* C32: the hours used for ranking, cap and overtime decisions are per week: when
\* scheduling_engine.py reaches the first slot of a new week of a multi-week run
\* every employee's hours so far are zero, and the hours the reference build ranks a
\* candidate by are those of the candidate's rows in the week of the slot only.
C32_HoursPerWeek ==
    /\ (eng_pc = "assign" /\ eng_day = 0 /\ eng_week > 0) =>
          \A id \in DOMAIN employee_hours : employee_hours[id] = 0
    /\ RankedForLastRow =>
          \A i \in 1..Len(candidates) :
              candidates[i][3] = RefWeekHoursBeforeLast(candidates[i][4])

\* the number of consecutive dates of the set that end at its latest date
StreakOf(dates) ==
    IF dates = {} THEN 0
    ELSE LET last == CHOOSE x \in dates : \A y \in dates : y <= x
             run == { k \in 1..Cardinality(dates) :
                        \A m \in 0..(k - 1) : last - m \in dates }
         IN CHOOSE k \in run : \A m \in run : m <= k

C33_Ref ==
    \A p \in DOMAIN worked_days_seq : Len(worked_days_seq[p]) = StreakOf(RefDatesOf(p))
\* the employees of the date that scheduling_engine.py has just saved
C33_Eng ==
    (eng_pc \in {"assign", "done"} /\ schedule_data # << >>) =>
        \A i \in 1..Len(all_assignments) :
            consecutive_days[all_assignments[i].employee_id]
                = StreakOf(EngDatesOf(all_assignments[i].employee_id))
\* app.py after the slots of a date have been given out
C33_App ==
    app_pc \in {"loop", "save", "done"} =>
        \A id \in DOMAIN state :
            AppDatesOf(id) # {} => state[id].days_worked = StreakOf(AppDatesOf(id))

\* C33: after every assignment step each employee's streak in the ledger is the
\* number of consecutive calendar dates, ending at the employee's last worked date,
\* on which the employee has an assignment: a second slot on the same date adds
\* nothing and a gap resets the streak before the new day is counted.
C33_StreakExact ==
    C33_Ref /\ C33_Eng /\ C33_App

\* sequence a is an initial part of sequence b
IsPrefix(a, b) == Len(a) <= Len(b) /\ SubSeq(b, 1, Len(a)) = a

\* C34: there is no backtracking: once a run has emitted the outcome of a slot no
\* later step of the run changes or removes it; in every generator the list of
\* assignments of a run only grows by appending (a new request starts a new list).
C34_AppendOnly ==
    [][/\ IsPrefix(assignments, assignments')
       /\ IsPrefix(schedule_data, schedule_data')
       /\ ~AppBeginStep => IsPrefix(app_assignments, app_assignments')
       /\ ~FixBeginStep => IsPrefix(new_assignments, new_assignments')]_vars

\* the reference build has finished a run with rows, filled and unfilled, on two dates
C34_Witness ==
    /\ ref_pc = "done"
    /\ \E i, j \in 1..Len(assignments) :
          /\ i < j /\ assignments[i].date < assignments[j].date
          /\ assignments[i].person # UNFILLED /\ assignments[j].person = UNFILLED

\* a step of an approve or deny endpoint of the time-off requests
DecisionStep ==
    /\ Len(api_responses') = Len(api_responses) + 1
    /\ api_responses'[Len(api_responses')].op \in {"approve", "deny"}
\* the status of every request the step found is the one it had
StatusKept(before, after) ==
    \A i \in 1..Len(before) : after[i].status = before[i].status
\* the commit of the decision k of app_fixed.py, which answers after its commit
FixDecisionCommit(k) ==
    /\ api_held[k].op \in {"approve", "deny"}
    /\ Len(api_held') = Len(api_held)
    /\ api_held'[k].op \in {"approve_committed", "deny_committed"}

\* C35 : a time-off request is decided at most once: a step of an approve or deny
\* endpoint changes the status of a request only when that status was PENDING, and
\* a decision on a request that is already APPROVED or DENIED is rejected with the
\* status unchanged.  Stated for the endpoints of app.py, which answer in the step
\* of their commit, and of app_fixed.py, where a decision that is not rejected goes
\* on to its commit and a rejected one never reaches it.
C35_DecidedOnce ==
    /\ [][DecisionStep =>
             LET a == api_responses'[Len(api_responses')] IN
             \A i \in 1..Len(timeoff_requests) :
                (timeoff_requests[i].id = a.id /\ timeoff_requests[i].status # "PENDING")
                   => (a.code # 200 /\ StatusKept(timeoff_requests, timeoff_requests'))]_vars
    /\ [][\A k \in 1..Len(api_held) :
             FixDecisionCommit(k) =>
                \A i \in 1..Len(time_off_requests) :
                   time_off_requests[i].id = api_held[k].id
                      => time_off_requests[i].status = "PENDING"]_vars

\* C38 : under any interleaving of two generation requests for overlapping date
\* ranges, once both have answered the published schedule holds at most one
\* assignment per (date, role).
OnePerDateRole(rows) ==
    \A i, j \in 1..Len(rows) :
        (i # j /\ rows[i].schedule_date = rows[j].schedule_date)
            => rows[i].role # rows[j].role
BothAnswered ==
    /\ app_pc = "done" /\ app_pending = << >>
    /\ Len(app_responses) = 2
    /\ app_responses[1].success /\ app_responses[2].success
C38_OnePerDateRoleAfterRace ==
    BothAnswered => OnePerDateRole(app_schedules)

\* C40 : in the reference scheduler, after every call of assign,
\* weekly_hours_by_week[week][employee] is the sum of the hours of that employee's
\* emitted assignments of that week, and last_end_dt[employee] is the end instant of
\* the employee's most recently emitted assignment.
RowsOf(p) == SelectSeqIdx(assignments, LAMBDA a : a.person = p)
EmittedHours(wk, p) ==
    LET rows == SelectSeqIdx(assignments, LAMBDA a : a.person = p /\ a.week_start = wk)
    IN SumSeq([i \in 1..Len(rows) |-> rows[i].hours])
RowEnd(a) ==
    IF a.end <= a.start THEN (a.date + 1) * DayHalfHours + a.end
    ELSE a.date * DayHalfHours + a.end
C40_LedgersMatchRows ==
    LET persons == { assignments[i].person : i \in 1..Len(assignments) }
        weeks == { assignments[i].week_start : i \in 1..Len(assignments) }
    IN /\ \A i \in 1..Len(assignments) :
             assignments[i].week_start = week_start(assignments[i].date)
       /\ \A wk \in weeks, p \in persons :
             WeekHours(weekly_hours_by_week, wk, p) = EmittedHours(wk, p)
       /\ \A k \in DOMAIN weekly_hours_by_week :
             weekly_hours_by_week[k] = EmittedHours(k[1], k[2])
       /\ DOMAIN last_end_dt = persons
       /\ \A p \in persons :
             last_end_dt[p] = RowEnd(RowsOf(p)[Len(RowsOf(p))])
\* a real employee holds rows in two weeks and the most recent one is an overnight shift
C40_Witness ==
    \E p \in DOMAIN last_end_dt :
        /\ p # UNFILLED
        /\ \E i, j \in 1..Len(RowsOf(p)) :
               RowsOf(p)[i].week_start # RowsOf(p)[j].week_start
        /\ LET last == RowsOf(p)[Len(RowsOf(p))]
           IN last.end <= last.start
====
